---- MODULE Spec2Model ----
(***************************************************************************)
(* Model of Scripts/merge_and_categorize.py: the merge / dedup engine of   *)
(* main() and the three-tier TransactionClassifier (custom mapping ->      *)
(* regex rules -> ML fallback), with the files they read and write.        *)
(*                                                                         *)
(* Strings are TLA+ strings (TLC evaluates Len, SubSeq and \o on them).    *)
(* Money is counted in cents, probabilities in hundredths.                 *)
(***************************************************************************)
EXTENDS Integers, Sequences, FiniteSets, TLC

(***************************************************************************)
(* str methods used by the program                                         *)
(***************************************************************************)
Upper == "ABCDEFGHIJKLMNOPQRSTUVWXYZ"
Lower == "abcdefghijklmnopqrstuvwxyz"
\* printable ASCII in code-point order (quote, backslash and backtick left out)
Ascii == " !#$%&'()*+,-./0123456789:;<=>?@ABCDEFGHIJKLMNOPQRSTUVWXYZ[]^_abcdefghijklmnopqrstuvwxyz{|}~"

CharAt(s, i) == SubSeq(s, i, i)

IndexIn(table, c) ==
  IF \E i \in 1..Len(table) : CharAt(table, i) = c
  THEN CHOOSE i \in 1..Len(table) : CharAt(table, i) = c
  ELSE 0

RECURSIVE RankFrom(_, _)
RankFrom(table, i) ==
  IF i > Len(table) THEN <<>> ELSE (CharAt(table, i) :> i) @@ RankFrom(table, i + 1)

\* code-point rank of each character
OrdMap == RankFrom(Ascii, 1)
Ord(c) == OrdMap[c]

UpperMap == RankFrom(Upper, 1)
LowerChar(c) == IF c \in DOMAIN UpperMap THEN CharAt(Lower, UpperMap[c]) ELSE c

RECURSIVE StrLower(_)
\* str.lower()
StrLower(s) == IF s = "" THEN "" ELSE LowerChar(Head(s)) \o StrLower(Tail(s))

RECURSIVE LStrip(_)
LStrip(s) == IF s # "" /\ Head(s) = " " THEN LStrip(Tail(s)) ELSE s

RECURSIVE RStrip(_)
RStrip(s) ==
  IF s # "" /\ CharAt(s, Len(s)) = " " THEN RStrip(SubSeq(s, 1, Len(s) - 1)) ELSE s

\* str.strip()
Strip(s) == RStrip(LStrip(s))

\* k in d  (substring test)
Contains(d, k) ==
  \E i \in 1..(Len(d) - Len(k) + 1) : SubSeq(d, i, i + Len(k) - 1) = k

StartsWith(s, p) == Len(s) >= Len(p) /\ SubSeq(s, 1, Len(p)) = p
EndsWith(s, p) == Len(s) >= Len(p) /\ SubSeq(s, Len(s) - Len(p) + 1, Len(s)) = p

RECURSIVE StrLess(_, _)
\* a < b on str: code-point lexical order
StrLess(a, b) ==
  IF b = "" THEN FALSE
  ELSE IF a = "" THEN TRUE
  ELSE IF Head(a) = Head(b) THEN StrLess(Tail(a), Tail(b))
  ELSE Ord(Head(a)) < Ord(Head(b))

RECURSIVE RemoveChar(_, _)
\* s.replace(c, "")
RemoveChar(s, c) ==
  IF s = "" THEN ""
  ELSE IF Head(s) = c THEN RemoveChar(Tail(s), c)
  ELSE Head(s) \o RemoveChar(Tail(s), c)

(***************************************************************************)
(* Sequences                                                               *)
(***************************************************************************)
Range(s) == { s[i] : i \in 1..Len(s) }

RECURSIVE SeqSum(_)
SeqSum(s) == IF s = <<>> THEN 0 ELSE Head(s) + SeqSum(Tail(s))

\* list.sort() / sorted(): the stable sort of s under the strict order Before;
\* an element's place is the number of elements that sort before it, plus one
SortBy(s, Before(_, _)) ==
  LET Precedes(j, i) == Before(s[j], s[i]) \/ (~Before(s[i], s[j]) /\ j < i)
      Rank(i) == Cardinality({ j \in 1..Len(s) : Precedes(j, i) }) + 1
  IN  [p \in 1..Len(s) |-> s[CHOOSE i \in 1..Len(s) : Rank(i) = p]]

(***************************************************************************)
(* Amounts: parse_amount and the text csv writes for a float               *)
(***************************************************************************)
Digits == "0123456789"

IsDigits(s) == s # "" /\ \A i \in 1..Len(s) : IndexIn(Digits, CharAt(s, i)) > 0

RECURSIVE DigitsValue(_)
DigitsValue(s) ==
  IF s = "" THEN 0
  ELSE 10 * DigitsValue(SubSeq(s, 1, Len(s) - 1)) + (IndexIn(Digits, CharAt(s, Len(s))) - 1)

DotAt(s) == IndexIn(s, ".")

\* float(t) for the decimal literals [-]ddd[.d[d]]; ok = FALSE is ValueError
ParseFloat(t) ==
  LET neg  == t # "" /\ Head(t) = "-"
      u    == IF neg THEN Tail(t) ELSE t
      dot  == DotAt(u)
      ip   == IF dot = 0 THEN u ELSE SubSeq(u, 1, dot - 1)
      fp   == IF dot = 0 THEN "" ELSE SubSeq(u, dot + 1, Len(u))
      fine == IsDigits(ip) /\ (dot = 0 \/ (IsDigits(fp) /\ Len(fp) <= 2))
      frac == IF fp = "" THEN 0
              ELSE IF Len(fp) = 1 THEN 10 * DigitsValue(fp) ELSE DigitsValue(fp)
      mag  == 100 * DigitsValue(ip) + frac
  IN  IF fine THEN [ok |-> TRUE, cents |-> IF neg THEN 0 - mag ELSE mag]
      ELSE [ok |-> FALSE, cents |-> 0]

parse_amount(s) ==
  IF s = "" \/ Strip(s) = "" THEN 0
  ELSE LET f == ParseFloat(RemoveChar(Strip(s), ","))
       IN  IF f.ok THEN f.cents ELSE 0

RECURSIVE NatToStr(_)
NatToStr(n) ==
  IF n < 10 THEN CharAt(Digits, n + 1)
  ELSE NatToStr(n \div 10) \o CharAt(Digits, (n % 10) + 1)

\* str(x) of a float holding whole cents: 5.0, 5.5, 5.25, -5.0
FloatStr(c) ==
  LET mag  == IF c < 0 THEN 0 - c ELSE c
      frac == mag % 100
      fs   == IF frac % 10 = 0 THEN NatToStr(frac \div 10)
              ELSE IF frac < 10 THEN "0" \o NatToStr(frac) ELSE NatToStr(frac)
  IN  (IF c < 0 THEN "-" ELSE "") \o NatToStr(mag \div 100) \o "." \o fs

(***************************************************************************)
(* JSON values and the configuration files                                 *)
(***************************************************************************)
\* a JSON scalar: t is "str", "num" or "null"; s is the string or the number's text
JStr(s) == [t |-> "str", s |-> s]
JNum(s) == [t |-> "num", s |-> s]
JNull == [t |-> "null", s |-> ""]

\* bool(v)
Truthy(v) == (v.t = "str" /\ v.s # "") \/ (v.t = "num" /\ v.s # "0")
\* str(v)
PyStr(v) == IF v.t = "null" THEN "None" ELSE v.s

\* a file that does not exist / is not JSON / holds a JSON list / holds a JSON object
Absent == [kind |-> "absent", items |-> <<>>, extra |-> <<>>]
BadJson == [kind |-> "badjson", items |-> <<>>, extra |-> <<>>]
JList(items) == [kind |-> "list", items |-> items, extra |-> <<>>]
JDict(items, extra) == [kind |-> "dict", items |-> items, extra |-> extra]

\* dict[k] = v keeping insertion order (a repeated key keeps its first position)
DictPut(d, k, v) ==
  IF \E i \in 1..Len(d) : d[i][1] = k
  THEN [i \in 1..Len(d) |-> IF d[i][1] = k THEN <<k, v>> ELSE d[i]]
  ELSE Append(d, <<k, v>>)

DictKeys(d) == [i \in 1..Len(d) |-> d[i][1]]
DictHas(d, k) == \E i \in 1..Len(d) : d[i][1] = k
DictGet(d, k) == d[CHOOSE i \in 1..Len(d) : d[i][1] = k][2]

(***************************************************************************)
(* Category rules.  A pattern is modelled by what re.search does with it:  *)
(* alts are the literal alternatives of p1|p2|..., icase is the (?i) flag, *)
(* valid = FALSE is a pattern re cannot compile; alts = {} is the empty    *)
(* pattern string.  In the built-in table 0{6,} is written 000000 (a       *)
(* search finds six or more zeros exactly when it finds six), escaped      *)
(* characters are written plainly and \s, \s+ are one blank.               *)
(***************************************************************************)
Pat(alts, icase) == [alts |-> alts, icase |-> icase, valid |-> TRUE]
BadPat == [alts |-> {"("}, icase |-> FALSE, valid |-> FALSE]
Rule(p, c) == [pattern |-> p, category |-> c]

_BUILTIN_CATEGORY_RULES == <<
  Rule(Pat({"electronic funds transfer pay windreg", "pay windreg", "payroll"}, TRUE), "Work Income"),
  Rule(Pat({"payment thank you", "paiemen t merci", "internet transfer 000000", "interac transfer",
            "e-transfer", "internet banking"}, TRUE), "Transfers & Payments"),
  Rule(Pat({"rogers *", "rogers******", "apple.com", "cursor", "paypal"}, TRUE), "Subscriptions & Bills"),
  Rule(Pat({"enwin", "university of windsor", "bill pay"}, TRUE), "Utilities & Bills"),
  Rule(Pat({"tim hortons", "starbucks", "mcdonald", "presotea", "taco bell", "subway", "pizza pizza",
            "chipotle", "burger king", "new york fries", "dollarama", "miniso"}, TRUE), "Food & Drink"),
  Rule(Pat({"athidhi", "janpath", "spago", "chilly bliss", "paan banaras", "restaurant"}, TRUE), "Restaurants"),
  Rule(Pat({"instacart", "costco", "wal-mart", "amazon", "amzn", "temu"}, TRUE), "Shopping & Groceries"),
  Rule(Pat({"uber", "lyft", "vets cab", "presto fare", "pearson parking", "michigan flyer",
            "spirit air", "air can"}, TRUE), "Transport & Travel"),
  Rule(Pat({"sport chek", "cinplex", "vue"}, TRUE), "Entertainment"),
  Rule(Pat({"shell", "gas", "petrol"}, TRUE), "Gas & Auto"),
  Rule(Pat({"interest", "service charge", "fee", "branch transaction", "automated banking machine"}, TRUE),
       "Fees & Interest"),
  Rule(Pat({"chiropractic"}, TRUE), "Health"),
  Rule(Pat({"shoppers drug", "pharmacy"}, TRUE), "Pharmacy"),
  Rule(Pat({"sephora"}, TRUE), "Personal Care") >>

TRANSFER_FALLBACK ==
  Rule(Pat({"e-transfer", "internet transfer ", "interac transfer"}, TRUE), "Transfers & Payments")

_BUILTIN_ALL_CATEGORIES == <<
  "Work Income", "Transfers & Payments", "Shopping & Groceries", "Food & Drink",
  "Restaurants", "Transport & Travel", "Subscriptions & Bills", "Utilities & Bills",
  "Entertainment", "Fees & Interest", "Health", "Pharmacy", "Personal Care", "Gas & Auto",
  "Uncategorized" >>

\* re.search(pattern, description) for a pattern that compiles
re_search(p, description) ==
  IF p.icase
  THEN \E d \in {StrLower(description)} : \E a \in p.alts : Contains(d, StrLower(a))
  ELSE \E a \in p.alts : Contains(description, a)

\* An entry of "rules" in category_rules.json: isdict = FALSE is an entry that is
\* not an object; category "" is a missing or empty one.
RuleItem(isdict, p, c) == [isdict |-> isdict, pattern |-> p, category |-> c]

RECURSIVE KeptRules(_)
\* the loop of _load_category_config over data["rules"]
KeptRules(items) ==
  IF items = <<>> THEN <<>>
  ELSE LET r == Head(items)
       IN  (IF r.isdict /\ r.pattern.alts # {} /\ r.category # ""
            THEN <<Rule(r.pattern, r.category)>> ELSE <<>>) \o KeptRules(Tail(items))

\* _load_category_config: file.items are the "rules", file.extra the "categories".
\* crash = TRUE is an exception the function does not catch (a JSON list has no .get).
_load_category_config(file) ==
  LET builtin == [crash |-> FALSE, rules |-> _BUILTIN_CATEGORY_RULES,
                  categories |-> _BUILTIN_ALL_CATEGORIES]
  IN  CASE file.kind = "absent" -> builtin
        [] file.kind = "badjson" -> builtin
        [] file.kind = "list" -> [builtin EXCEPT !.crash = TRUE]
        [] OTHER ->
             LET rules == KeptRules(file.items)
                 categories == file.extra
             IN  IF rules # <<>> \/ categories # <<>>
                 THEN [crash |-> FALSE,
                       rules |-> IF rules # <<>> THEN rules ELSE _BUILTIN_CATEGORY_RULES,
                       categories |-> IF categories # <<>> THEN categories
                                      ELSE _BUILTIN_ALL_CATEGORIES]
                 ELSE builtin

(***************************************************************************)
(* ML confidence threshold                                                 *)
(***************************************************************************)
MIN_TRAINING_SAMPLES == 10

Max(a, b) == IF a >= b THEN a ELSE b
Min(a, b) == IF a <= b THEN a ELSE b

\* _ml_threshold: raw is the text of ML_CONFIDENCE_THRESHOLD ("0.70" when unset);
\* the result is in hundredths
_ml_threshold(raw) ==
  LET f == ParseFloat(Strip(raw))
  IN  IF f.ok THEN Max(0, Min(100, f.cents)) ELSE 70

(***************************************************************************)
(* TransactionClassifier                                                   *)
(***************************************************************************)
SOURCE_MAPPING == "mapping"
SOURCE_REGEX == "regex"
SOURCE_ML == "ml"
SOURCE_UNCATEGORIZED == "uncategorized"

ZeroCounts == [mapping |-> 0, regex |-> 0, ml |-> 0, uncategorized |-> 0]

NoModel == [classes |-> <<>>, hash |-> <<>>]

\* TransactionClassifier.__init__ given what _load_category_config returned
NewClassifier(conf, folder_name) ==
  [current_month_folder |-> Strip(folder_name),
   custom_mapping |-> <<>>,
   mapping_keys_sorted |-> <<>>,
   regex_rules |-> conf.rules,
   all_categories |-> conf.categories,
   model |-> NoModel,
   ml_trained |-> FALSE,
   counts |-> ZeroCounts]

\* faulty variant: every entry of custom_mapping.json is taken into the table
KeepsAnyEntry(v) == v.t = "str"

\* the filter of the dict comprehension of _load_custom_mapping
KeepsEntry(v) ==
  Truthy(v) /\ Strip(PyStr(v)) # "" /\ StrLower(Strip(PyStr(v))) # "uncategorized"

RECURSIVE MappingFrom(_, _)
\* {k.strip(): v.strip() for k, v in data.items() if ...}, items in file order
MappingFrom(items, acc) ==
  IF items = <<>> THEN [crash |-> FALSE, dict |-> acc]
  ELSE LET k == Head(items)[1]
           v == Head(items)[2]
       IN  IF ~KeepsEntry(v) THEN MappingFrom(Tail(items), acc)
           ELSE IF v.t # "str" THEN [crash |-> TRUE, dict |-> <<>>]  \* v.strip(): AttributeError
           ELSE MappingFrom(Tail(items), DictPut(acc, Strip(k), Strip(v.s)))

\* faulty variant: the keys are sorted shortest first
ShorterFirst(a, b) == Len(a) < Len(b)

\* key=len, reverse=True
LongerFirst(a, b) == Len(a) > Len(b)

\* _load_custom_mapping
Loaded(got) ==
  [crash |-> got.crash,
   custom_mapping |-> got.dict,
   mapping_keys_sorted |-> SortBy(DictKeys(got.dict), LongerFirst)]

_load_custom_mapping(file) ==
  Loaded(IF file.kind = "dict" THEN MappingFrom(file.items, <<>>)
         ELSE [crash |-> FALSE, dict |-> <<>>])

RECURSIVE FirstMatch(_, _)
\* the loop of _regex_category over self._regex_rules: "" when no rule matches,
\* error when re.search raises on a pattern that does not compile
FirstMatch(rules, description) ==
  IF rules = <<>> THEN [error |-> FALSE, category |-> ""]
  ELSE IF ~Head(rules).pattern.valid THEN [error |-> TRUE, category |-> ""]
  ELSE IF re_search(Head(rules).pattern, description)
       THEN [error |-> FALSE, category |-> Head(rules).category]
  ELSE FirstMatch(Tail(rules), description)

\* faulty variant: the transfer fallback is consulted before the configured rules
FallbackFirst(m, description) ==
  IF m.error THEN m
  ELSE IF re_search(TRANSFER_FALLBACK.pattern, description)
       THEN [error |-> FALSE, category |-> TRANSFER_FALLBACK.category]
  ELSE IF m.category # "" THEN m
  ELSE [error |-> FALSE, category |-> "Uncategorized"]

\* lines 151-153, m being what the loop over the rules gave
OrFallback(m, description) ==
  IF m.error \/ m.category # "" THEN m
  ELSE IF re_search(TRANSFER_FALLBACK.pattern, description)
       THEN [error |-> FALSE, category |-> TRANSFER_FALLBACK.category]
  ELSE [error |-> FALSE, category |-> "Uncategorized"]

_regex_category(clf, description) ==
  IF description = "" \/ Strip(description) = ""
  THEN [error |-> FALSE, category |-> "Uncategorized"]
  ELSE OrFallback(FirstMatch(clf.regex_rules, description), description)

\* faulty variant: the confidence is accepted from the threshold on
PredictMlAtLeast(clf, proba, threshold) ==
  IF ~clf.ml_trained \/ clf.model.classes = <<>> THEN ""
  ELSE LET max_idx == (proba.idx % Len(clf.model.classes)) + 1
           confidence == proba.conf
           pred == clf.model.classes[max_idx]
       IN  IF confidence >= threshold /\ pred \in Range(clf.all_categories) THEN pred ELSE ""

\* faulty variant: a predicted label is accepted whether or not it is a category
PredictMlAnyLabel(clf, proba, threshold) ==
  IF ~clf.ml_trained \/ clf.model.classes = <<>> THEN ""
  ELSE LET max_idx == (proba.idx % Len(clf.model.classes)) + 1
           confidence == proba.conf
           pred == clf.model.classes[max_idx]
       IN  IF confidence > threshold THEN pred ELSE ""

\* _predict_ml: the category, or "" for None.  proba is what predict_proba gives
\* for the description: the index of its largest entry and that entry in hundredths.
_predict_ml(clf, proba, threshold) ==
  IF ~clf.ml_trained \/ clf.model.classes = <<>> THEN ""
  ELSE LET max_idx == (proba.idx % Len(clf.model.classes)) + 1
           confidence == proba.conf
           pred == clf.model.classes[max_idx]
       IN  IF confidence > threshold /\ pred \in Range(clf.all_categories) THEN pred ELSE ""

RECURSIVE MappingLookup(_, _, _)
\* step 1 of categorize: the first key of keys, in order, that is in the description
MappingLookup(keys, custom_mapping, description) ==
  IF keys = <<>> THEN ""
  ELSE LET key == Head(keys)
           cat == DictGet(custom_mapping, key)
       IN  IF (Contains(description, key) \/ description = key)
              /\ cat # "" /\ cat # "Uncategorized"
           THEN cat
           ELSE MappingLookup(Tail(keys), custom_mapping, description)

Tier1(clf, description) ==
  MappingLookup(clf.mapping_keys_sorted, clf.custom_mapping, description)

Decided(category, source) == [error |-> FALSE, category |-> category, source |-> source]

\* faulty variant: the pattern rules are consulted before the custom mapping
WaterfallRegexFirst(cat1, rx, pred) ==
  IF rx.error THEN [error |-> TRUE, category |-> "", source |-> ""]
  ELSE IF rx.category # "Uncategorized" THEN Decided(rx.category, SOURCE_REGEX)
  ELSE IF cat1 # "" THEN Decided(cat1, SOURCE_MAPPING)
  ELSE IF pred # "" THEN Decided(pred, SOURCE_ML)
  ELSE Decided("Uncategorized", SOURCE_UNCATEGORIZED)

\* the waterfall of categorize over what the three steps give: cat1 from the custom
\* mapping ("" when no key matches), rx from _regex_category, pred from _predict_ml
Waterfall(cat1, rx, pred) ==
  IF cat1 # "" THEN Decided(cat1, SOURCE_MAPPING)
  ELSE IF rx.error THEN [error |-> TRUE, category |-> "", source |-> ""]
  ELSE IF rx.category # "Uncategorized" THEN Decided(rx.category, SOURCE_REGEX)
  ELSE IF pred # "" THEN Decided(pred, SOURCE_ML)
  ELSE Decided("Uncategorized", SOURCE_UNCATEGORIZED)

\* categorize: (category, source), or error when an exception leaves it
categorize(clf, description, proba, threshold) ==
  IF description = "" \/ Strip(description) = ""
  THEN Decided("Uncategorized", SOURCE_UNCATEGORIZED)
  ELSE Waterfall(Tier1(clf, description), _regex_category(clf, description),
                 _predict_ml(clf, proba, threshold))

\* faulty variant: a decided row is counted as uncategorized as well
CountAlsoUncategorized(counts, source) ==
  [counts EXCEPT ![source] = @ + 1, ![SOURCE_UNCATEGORIZED] = @ + 1]

\* self._counts[source] += 1
Count(counts, source) == [counts EXCEPT ![source] = @ + 1]

(***************************************************************************)
(* Training data, its hash and fit()                                       *)
(***************************************************************************)
MonthNames == << "january", "february", "march", "april", "may", "june", "july",
                 "august", "september", "october", "november", "december" >>

\* datetime.strptime(name, "%B %Y"): ok = FALSE is ValueError; dt orders the dates
ParsePeriod(name) ==
  LET sp    == IndexIn(name, " ")
      month == StrLower(SubSeq(name, 1, sp - 1))
      year  == LStrip(SubSeq(name, sp + 1, Len(name)))
      fine  == sp > 1 /\ (\E m \in 1..12 : MonthNames[m] = month)
               /\ IsDigits(year) /\ Len(year) = 4
  IN  IF fine
      THEN [ok |-> TRUE,
            dt |-> 12 * DigitsValue(year) + (CHOOSE m \in 1..12 : MonthNames[m] = month)]
      ELSE [ok |-> FALSE, dt |-> 0]

PathOf(folder, file) == folder \o "/" \o file

\* csv.DictReader's row.get(column) or "": the first row of the file names the columns
DictField(header, row, column) ==
  LET at == IF \E i \in 1..Len(header) : header[i] = column
            THEN CHOOSE i \in 1..Len(header) : header[i] = column ELSE 0
  IN  IF at > 0 /\ at <= Len(row) THEN row[at] ELSE ""

RECURSIVE MergedPairs(_, _)
\* the (desc, cat) pairs _load_historical_training_data keeps from one merged.csv
MergedPairs(header, rows) ==
  IF rows = <<>> THEN <<>>
  ELSE LET desc == Strip(DictField(header, Head(rows), "Description"))
           cat  == Strip(DictField(header, Head(rows), "Category"))
       IN  (IF desc # "" /\ cat # "" /\ cat # "Uncategorized" THEN << <<desc, cat>> >> ELSE <<>>)
           \o MergedPairs(header, Tail(rows))

PairsOfFile(rows) == IF rows = <<>> THEN <<>> ELSE MergedPairs(Head(rows), Tail(rows))

\* a set of strings as the sequence sorted() gives
SortedSeq(S) ==
  [p \in 1..Cardinality(S) |->
     CHOOSE x \in S : Cardinality({ y \in S : StrLess(y, x) }) = p - 1]

NewerFirst(a, b) == ParsePeriod(a).dt > ParsePeriod(b).dt

RECURSIVE PairsOfFolders(_, _)
PairsOfFolders(folders, files) ==
  IF folders = <<>> THEN <<>>
  ELSE PairsOfFile(files[PathOf(Head(folders), "merged.csv")])
       \o PairsOfFolders(Tail(folders), files)

\* _load_historical_training_data: dirs are the folders of accounts_dir, files the
\* csv files on disk by path
_load_historical_training_data(dirs, files, current_month_folder) ==
  LET merged_files ==
        SortBy(SortedSeq({ d \in dirs : /\ PathOf(d, "merged.csv") \in DOMAIN files
                                       /\ d # current_month_folder
                                       /\ ParsePeriod(d).ok }), NewerFirst)
  IN  PairsOfFolders(SubSeq(merged_files, 1, Min(3, Len(merged_files))), files)

RECURSIVE AddEvery(_, _)
\* faulty variant: a historical pair is added whether or not its text was seen
AddEvery(pairs, historical) ==
  IF historical = <<>> THEN pairs
  ELSE LET desc == Head(historical)[1]
           cat  == Head(historical)[2]
       IN  IF cat # "Uncategorized"
           THEN AddEvery(Append(pairs, <<desc, cat>>), Tail(historical))
           ELSE AddEvery(pairs, Tail(historical))

RECURSIVE AddUnseen(_, _)
AddUnseen(pairs, historical) ==
  IF historical = <<>> THEN pairs
  ELSE LET desc == Head(historical)[1]
           cat  == Head(historical)[2]
       IN  IF ~DictHas(pairs, desc) /\ cat # "Uncategorized"
           THEN AddUnseen(Append(pairs, <<desc, cat>>), Tail(historical))
           ELSE AddUnseen(pairs, Tail(historical))

\* _build_training_data
_build_training_data(custom_mapping, historical) ==
  AddUnseen(SelectSeq(custom_mapping, LAMBDA e : e[2] # "" /\ e[2] # "Uncategorized"),
            historical)

PairLess(a, b) == StrLess(a[1], b[1]) \/ (a[1] = b[1] /\ StrLess(a[2], b[2]))

\* faulty variant: the categories are left out of the digest
HashOfDescriptions(training) ==
  SortBy([i \in 1..Len(training) |-> <<training[i][1], "">>], PairLess)

\* _training_data_hash: the digest is modelled by what it is a digest of, the sorted
\* training list (two lists have one hash exactly when they sort to the same list)
_training_data_hash(training) == SortBy(training, PairLess)

NoCache == [kind |-> "none", hash |-> <<>>, model |-> NoModel]
CorruptCache == [kind |-> "corrupt", hash |-> <<>>, model |-> NoModel]

\* faulty variant: a cache file that cannot be used ends the training
TrainGivesUpOnBadCache(base, classes, current_hash, cache, outcome, skip) ==
  IF Len(classes) < 2 THEN skip
  ELSE IF cache.kind = "ok" /\ cache.hash = current_hash
  THEN [skip EXCEPT !.clf = [base EXCEPT !.model = cache.model, !.ml_trained = TRUE],
                    !.read = TRUE]
  ELSE IF cache.kind # "none" \/ outcome = "fit_raises" THEN [skip EXCEPT !.read = cache.kind # "none"]
  ELSE [crash |-> FALSE,
        clf |-> [base EXCEPT !.model = [classes |-> classes, hash |-> current_hash],
                             !.ml_trained = TRUE],
        cache |-> IF outcome = "dump_raises" THEN CorruptCache
                  ELSE [kind |-> "ok", hash |-> current_hash,
                        model |-> [classes |-> classes, hash |-> current_hash]],
        trained |-> TRUE,
        read |-> FALSE]

\* faulty variant: a fit that raises leaves the classifier marked as trained
TrainMarksFailedFit(base, classes, current_hash, cache, outcome, skip) ==
  IF Len(classes) < 2 THEN skip
  ELSE IF cache.kind = "ok" /\ cache.hash = current_hash
  THEN [skip EXCEPT !.clf = [base EXCEPT !.model = cache.model, !.ml_trained = TRUE],
                    !.read = TRUE]
  ELSE IF outcome = "fit_raises"
  THEN [skip EXCEPT !.clf = [base EXCEPT !.model = [classes |-> classes, hash |-> current_hash],
                                         !.ml_trained = TRUE],
                    !.read = cache.kind # "none"]
  ELSE [crash |-> FALSE,
        clf |-> [base EXCEPT !.model = [classes |-> classes, hash |-> current_hash],
                             !.ml_trained = TRUE],
        cache |-> IF outcome = "dump_raises" THEN CorruptCache
                  ELSE [kind |-> "ok", hash |-> current_hash,
                        model |-> [classes |-> classes, hash |-> current_hash]],
        trained |-> TRUE,
        read |-> cache.kind # "none"]

\* lines 227-259 of fit(): base is the classifier after lines 212-215, training
\* its training data, classes sorted(set(y)), current_hash the hash of training.
\* read tells whether the cache file was opened (it is when it exists, line 234).
Train(base, classes, current_hash, cache, outcome, skip) ==
  IF Len(classes) < 2 THEN skip
  ELSE IF cache.kind = "ok" /\ cache.hash = current_hash
  THEN [skip EXCEPT !.clf = [base EXCEPT !.model = cache.model, !.ml_trained = TRUE],
                    !.read = TRUE]
  ELSE IF outcome = "fit_raises" THEN [skip EXCEPT !.read = cache.kind # "none"]
  ELSE [crash |-> FALSE,
        clf |-> [base EXCEPT !.model = [classes |-> classes, hash |-> current_hash],
                             !.ml_trained = TRUE],
        cache |-> IF outcome = "dump_raises" THEN CorruptCache
                  ELSE [kind |-> "ok", hash |-> current_hash,
                        model |-> [classes |-> classes, hash |-> current_hash]],
        trained |-> TRUE,
        read |-> cache.kind # "none"]

\* faulty variant: the size of the training data is not looked at
FitOnAnySize(base, training, cache, sklearn, outcome, skip) ==
  IF ~sklearn THEN skip
  ELSE Train(base, SortedSeq({ training[i][2] : i \in 1..Len(training) }),
             _training_data_hash(training), cache, outcome, skip)

\* lines 217-231 of fit()
FitOn(base, training, cache, sklearn, outcome, skip) ==
  IF Len(training) < MIN_TRAINING_SAMPLES THEN skip
  ELSE IF ~sklearn THEN skip
  ELSE Train(base, SortedSeq({ training[i][2] : i \in 1..Len(training) }),
             _training_data_hash(training), cache, outcome, skip)

FitLoaded(clf, lm, historical, cache, sklearn, outcome, base) ==
  IF lm.crash
  THEN [crash |-> TRUE, clf |-> base, cache |-> cache, trained |-> FALSE, read |-> FALSE]
  ELSE FitOn(base, _build_training_data(lm.custom_mapping, historical), cache, sklearn,
             outcome, [crash |-> FALSE, clf |-> base, cache |-> cache, trained |-> FALSE,
                       read |-> FALSE])

WithMapping(clf, lm) ==
  [clf EXCEPT !.custom_mapping = lm.custom_mapping,
              !.mapping_keys_sorted = lm.mapping_keys_sorted,
              !.model = NoModel, !.ml_trained = FALSE]

\* fit(): the classifier and the cache file after it.  sklearn: the import
\* succeeds; outcome: what the try block of lines 248-259 does, "ok", "fit_raises"
\* (an exception while fitting) or "dump_raises" (one while writing the cache).
\* crash is an exception fit() lets through; trained tells whether this call
\* fitted a model itself.
FitWith(clf, lm, historical, cache, sklearn, outcome) ==
  FitLoaded(clf, lm, historical, cache, sklearn, outcome, WithMapping(clf, lm))

fit(clf, mapping_file, historical, cache, sklearn, outcome) ==
  FitWith(clf, _load_custom_mapping(mapping_file), historical, cache, sklearn, outcome)

(***************************************************************************)
(* Bank profile, row reader, ignore list, vendor aliases                   *)
(***************************************************************************)
DefaultProfile ==
  [crash |-> FALSE, file_pattern |-> "cibc*.csv",
   date_col |-> 0, desc_col |-> 1, debit_col |-> 2, credit_col |-> 3, account_col |-> 4]

\* int(v) succeeds
IntOk(v) == v.t \in {"str", "num"} /\ IsDigits(v.s)

\* _load_bank_profile.  A JSON object is modelled by the profile it selects:
\* items = <<file_pattern, date, description, debit, credit, account>> as JSON
\* values.  A JSON list has no .get: AttributeError, which the function lets through.
_load_bank_profile(file) ==
  CASE file.kind = "absent" -> DefaultProfile
    [] file.kind = "badjson" -> DefaultProfile
    [] file.kind = "list" -> [DefaultProfile EXCEPT !.crash = TRUE]
    [] OTHER ->
         IF \A i \in 2..6 : IntOk(file.items[i])
         THEN [crash |-> FALSE, file_pattern |-> PyStr(file.items[1]),
               date_col |-> DigitsValue(file.items[2].s),
               desc_col |-> DigitsValue(file.items[3].s),
               debit_col |-> DigitsValue(file.items[4].s),
               credit_col |-> DigitsValue(file.items[5].s),
               account_col |-> DigitsValue(file.items[6].s)]
         ELSE DefaultProfile

\* row[col] if len(row) > col else ""
Field(row, col) == IF Len(row) > col THEN row[col + 1] ELSE ""

\* Path.stem of a file name
Stem(name) == IF EndsWith(name, ".csv") THEN SubSeq(name, 1, Len(name) - 4) ELSE name

\* the record read_bank_csv builds from one csv row
ReadRow(row, source_name, pro) ==
  LET debit  == parse_amount(Field(row, pro.debit_col))
      credit == parse_amount(Field(row, pro.credit_col))
  IN  [Date |-> Strip(row[pro.date_col + 1]),
       Description |-> Strip(row[pro.desc_col + 1]),
       Debit |-> debit,
       Credit |-> credit,
       Amount |-> IF debit # 0 THEN debit ELSE 0 - credit,
       Account |-> Strip(Field(row, pro.account_col)),
       Source |-> source_name,
       Category |-> ""]

RECURSIVE ReadRows(_, _, _)
ReadRows(raw, source_name, pro) ==
  IF raw = <<>> THEN <<>>
  ELSE (IF Len(Head(raw)) <= Max(pro.desc_col, pro.date_col) THEN <<>>
        ELSE <<ReadRow(Head(raw), source_name, pro)>>)
       \o ReadRows(Tail(raw), source_name, pro)

\* read_bank_csv: raw are the rows csv.reader yields, name the file's name
read_bank_csv(raw, name, pro) == ReadRows(raw, Stem(name), pro)

\* the text csv writes for r["Amount"]: a zero debit gives -credit, and -0.0 for
\* a zero credit
AmountStr(r) ==
  IF r.Debit # 0 THEN FloatStr(r.Debit)
  ELSE IF r.Credit = 0 THEN "-0.0" ELSE FloatStr(0 - r.Credit)

RECURSIVE CleanIgnore(_)
\* [str(s).strip().lower() for s in data if s]
CleanIgnore(items) ==
  IF items = <<>> THEN <<>>
  ELSE (IF Truthy(Head(items)) THEN <<StrLower(Strip(PyStr(Head(items))))>> ELSE <<>>)
       \o CleanIgnore(Tail(items))

\* the ignore_list.json block of main.  For a JSON object, extra = <<"descriptions">>
\* says the key is there with the list items; <<"descriptions", "number">> says
\* its value is a number, and iterating it is a TypeError main does not catch.
LoadIgnoreList(file) ==
  CASE file.kind = "list" -> [crash |-> FALSE, ignore_list |-> CleanIgnore(file.items)]
    [] file.kind = "dict" /\ file.extra = <<"descriptions">> ->
         [crash |-> FALSE, ignore_list |-> CleanIgnore(file.items)]
    [] file.kind = "dict" /\ file.extra = <<"descriptions", "number">> ->
         [crash |-> TRUE, ignore_list |-> <<>>]
    [] OTHER -> [crash |-> FALSE, ignore_list |-> <<>>]

\* faulty variant: the description is not lowercased before the phrases are looked for
ShouldIgnoreCaseSensitive(ignore_list, description) ==
  IF description = "" \/ Strip(description) = "" THEN FALSE
  ELSE \E i \in 1..Len(ignore_list) : Contains(Strip(description), ignore_list[i])

should_ignore(ignore_list, description) ==
  IF description = "" \/ Strip(description) = "" THEN FALSE
  ELSE LET d == StrLower(Strip(description))
       IN  \E i \in 1..Len(ignore_list) : Contains(d, ignore_list[i])

RECURSIVE AliasesFrom(_, _)
\* {k.strip(): str(v).strip() for k, v in data.items() if k and v}
AliasesFrom(items, acc) ==
  IF items = <<>> THEN acc
  ELSE LET k == Head(items)[1]
           v == Head(items)[2]
       IN  IF k # "" /\ Truthy(v)
           THEN AliasesFrom(Tail(items), DictPut(acc, Strip(k), Strip(PyStr(v))))
           ELSE AliasesFrom(Tail(items), acc)

LoadVendorAliases(file) ==
  IF file.kind = "dict" THEN AliasesFrom(file.items, <<>>) ELSE <<>>

RECURSIVE FirstAliasOrBlank(_, _, _)
\* faulty variant: a description that holds no alias key is blanked
FirstAliasOrBlank(keys, vendor_aliases, desc) ==
  IF keys = <<>> THEN ""
  ELSE IF Contains(desc, Head(keys)) THEN DictGet(vendor_aliases, Head(keys))
  ELSE FirstAliasOrBlank(Tail(keys), vendor_aliases, desc)

RECURSIVE FirstAlias(_, _, _)
FirstAlias(keys, vendor_aliases, desc) ==
  IF keys = <<>> THEN desc
  ELSE IF Contains(desc, Head(keys)) THEN DictGet(vendor_aliases, Head(keys))
  ELSE FirstAlias(Tail(keys), vendor_aliases, desc)

\* faulty variant: the canonical name is looked up in the aliases once more
NormalizeTwice(vendor_aliases, desc) ==
  IF desc = "" \/ Strip(desc) = "" THEN desc
  ELSE FirstAlias(SortBy(DictKeys(vendor_aliases), LongerFirst), vendor_aliases,
                  FirstAlias(SortBy(DictKeys(vendor_aliases), LongerFirst), vendor_aliases, desc))

normalize_description(vendor_aliases, desc) ==
  IF desc = "" \/ Strip(desc) = "" THEN desc
  ELSE FirstAlias(SortBy(DictKeys(vendor_aliases), LongerFirst), vendor_aliases, desc)

\* faulty variant: the sort key is the date alone
RowBeforeDateOnly(a, b) == StrLess(a.Date, b.Date)

\* the sort key of all_rows.sort: (Date, Description) compared as strings
RowBefore(a, b) ==
  StrLess(a.Date, b.Date) \/ (a.Date = b.Date /\ StrLess(a.Description, b.Description))

\* faulty variant: the pattern finds no file
GlobMatchNone(pattern, name) == FALSE

\* Path.glob(pattern) on one name, for a pattern with at most one "*"
GlobMatch(pattern, name) ==
  LET star == IndexIn(pattern, "*")
  IN  IF star = 0 THEN name = pattern
      ELSE /\ Len(name) >= Len(pattern) - 1
           /\ StartsWith(name, SubSeq(pattern, 1, star - 1))
           /\ EndsWith(name, SubSeq(pattern, star + 1, Len(pattern)))

RECURSIVE RStripSlash(_)
\* the name pathlib gives ACCOUNTS_DIR / folder_name: trailing slashes are dropped
RStripSlash(s) ==
  IF s # "" /\ CharAt(s, Len(s)) = "/" THEN RStripSlash(SubSeq(s, 1, Len(s) - 1)) ELSE s

(***************************************************************************)
(* State.  The disk and the environment outlive a run of main(); the rest  *)
(* is main()'s local state and the position of the run.                    *)
(***************************************************************************)
VARIABLES
  config,          \* the five configuration files of ACCOUNTS_DIR
  dirs,            \* names of the folders of ACCOUNTS_DIR
  files,           \* csv files on disk: path -> rows (each a sequence of fields)
  blocked,         \* paths open(path, "w") fails on (a directory or a read-only file)
  cache,           \* .ml_cache/classifier.pkl
  audit_json,      \* audit.json of the month folder
  env,             \* argv[1], ML_CONFIDENCE_THRESHOLD, what sklearn can do
  pc,              \* where the run is
  classifier,      \* the TransactionClassifier
  profile,         \* what _load_bank_profile returned
  csv_files,       \* sorted(month_path.glob(file_pattern)), as file names
  ignore_list,
  file_idx,        \* the loop of line 442 (0-based, as enumerate counts)
  rows,            \* read_bank_csv of the current file
  row_idx,         \* rows of the current file already handled
  seen_in_file,
  key_to_files,    \* dedup key -> set of file indexes
  all_rows,
  duplicate_count,
  total_credits,
  total_debits,
  ignored_count,
  cat_idx,         \* rows of all_rows already categorized
  written,         \* output artifacts this run has written
  run_no,          \* runs started so far
  log,             \* history: one entry per row the merge loop handled
  fit_log,         \* history: one entry per fit() call
  prev             \* history: what the previous run left

disk == <<config, dirs, files, blocked, cache, audit_json, env>>
merge_state == <<file_idx, rows, row_idx, seen_in_file, key_to_files, all_rows,
                 duplicate_count, total_credits, total_debits, ignored_count, log>>
setup_state == <<classifier, profile, csv_files, ignore_list>>
vars == <<config, dirs, files, blocked, cache, audit_json, env, pc, classifier, profile,
          csv_files, ignore_list, file_idx, rows, row_idx, seen_in_file, key_to_files,
          all_rows, duplicate_count, total_credits, total_debits, ignored_count,
          cat_idx, written, run_no, log, fit_log, prev>>

\* month_path.name
MonthName == RStripSlash(Strip(env.folder_name))
CombinedName == MonthName \o "_combined.csv"
CombinedPath == PathOf(MonthName, CombinedName)
MergedPath == PathOf(MonthName, "merged.csv")
AuditPath == PathOf(MonthName, "audit.json")

\* names of the files of the month folder
MonthFiles ==
  { SubSeq(p, Len(MonthName) + 2, Len(p)) :
      p \in { q \in DOMAIN files : StartsWith(q, MonthName \o "/") } }

NoAudit == [exists |-> FALSE, data |-> <<>>]
NoPrev == [pc |-> "", config |-> <<>>, combined |-> <<>>, merged |-> <<>>, audit |-> NoAudit]

\* main()'s locals before the run has set them
LocalsInit ==
  /\ classifier = NewClassifier(
                    [rules |-> <<>>, categories |-> <<>>], "")
  /\ profile = DefaultProfile
  /\ csv_files = <<>>
  /\ ignore_list = <<>>
  /\ file_idx = 0
  /\ rows = <<>>
  /\ row_idx = 0
  /\ seen_in_file = {}
  /\ key_to_files = <<>>
  /\ all_rows = <<>>
  /\ duplicate_count = 0
  /\ total_credits = 0
  /\ total_debits = 0
  /\ ignored_count = 0
  /\ cat_idx = 0
  /\ written = {}
  /\ log = <<>>

(***************************************************************************)
(* main(), in the order of its statements                                  *)
(***************************************************************************)
MaxRuns == 2

\* lines 387-431: the checks of the arguments and of the month folder, the bank
\* profile, the glob, the ignore list and the construction of the classifier
Start ==
  /\ pc = "start"
  /\ \E pro \in {_load_bank_profile(config.profiles)},
        ign \in {LoadIgnoreList(config.ignore)},
        conf \in {_load_category_config(config.rules)} :
      \E found \in {SortedSeq({ n \in MonthFiles : GlobMatch(pro.file_pattern, n) })} :
         IF Strip(env.folder_name) = "" \/ MonthName \notin dirs
         THEN pc' = "exit1" /\ UNCHANGED setup_state
         ELSE IF pro.crash
         THEN pc' = "crashed" /\ UNCHANGED setup_state
         ELSE IF found = <<>>
         THEN /\ pc' = "exit1"
              /\ profile' = pro
              /\ UNCHANGED <<classifier, csv_files, ignore_list>>
         ELSE IF ign.crash \/ conf.crash
         THEN /\ pc' = "crashed"
              /\ profile' = pro
              /\ csv_files' = found
              /\ UNCHANGED <<classifier, ignore_list>>
         ELSE /\ pc' = "fit"
              /\ profile' = pro
              /\ csv_files' = found
              /\ ignore_list' = ign.ignore_list
              /\ classifier' = NewClassifier(conf, env.folder_name)
  /\ UNCHANGED <<disk, merge_state, cat_idx, written, run_no, fit_log, prev>>

\* line 432: classifier.fit()
Fit ==
  /\ pc = "fit"
  /\ \E historical \in {_load_historical_training_data(dirs, files,
                                                         classifier.current_month_folder)} :
      \E outcome \in env.outcomes :
      \E r \in {fit(classifier, config.mapping, historical, cache, env.sklearn, outcome)} :
         IF r.crash
         THEN pc' = "crashed" /\ UNCHANGED <<classifier, cache, fit_log>>
         ELSE /\ pc' = "open"
              /\ classifier' = r.clf
              /\ cache' = r.cache
              /\ fit_log' = Append(fit_log,
                   [training |-> _build_training_data(r.clf.custom_mapping, historical),
                    before |-> cache, after |-> r.cache, trained |-> r.trained,
                    outcome |-> outcome, read |-> r.read,
                    ml_trained |-> r.clf.ml_trained, model |-> r.clf.model])
  /\ UNCHANGED <<config, dirs, files, blocked, audit_json, env, profile, csv_files,
                 ignore_list, merge_state, cat_idx, written, run_no, prev>>

\* lines 442-444: the head of the loop over csv_files
OpenFile ==
  /\ pc = "open"
  /\ IF file_idx < Len(csv_files)
     THEN /\ rows' = read_bank_csv(files[PathOf(MonthName, csv_files[file_idx + 1])],
                                   csv_files[file_idx + 1], profile)
          /\ row_idx' = 0
          /\ seen_in_file' = {}
          /\ pc' = "row"
     ELSE /\ pc' = "sort"
          /\ UNCHANGED <<rows, row_idx, seen_in_file>>
  /\ UNCHANGED <<disk, setup_state, file_idx, key_to_files, all_rows, duplicate_count,
                 total_credits, total_debits, ignored_count, log, cat_idx, written,
                 run_no, fit_log, prev>>

DedupKey(r) == <<r.Date, r.Description, r.Amount>>

\* faulty variant: the set of a key is made anew at every lookup
FilesWithFresh(key) == {}

\* faulty variant: a key claimed by an earlier file is claimed by the current one too
FilesWithCurrent(key) ==
  IF key \in DOMAIN key_to_files THEN key_to_files[key] \cup {file_idx} ELSE {}

\* key_to_files.setdefault(key, set())
FilesWith(key) == IF key \in DOMAIN key_to_files THEN key_to_files[key] ELSE {}

Entry(r, verdict) ==
  [file |-> file_idx, key |-> DedupKey(r), row |-> r, verdict |-> verdict]

\* lines 445-461: one pass of the loop over the rows of the current file
MergeRow ==
  /\ pc = "row"
  /\ IF row_idx < Len(rows)
     THEN LET r   == rows[row_idx + 1]
              key == DedupKey(r)
          IN  /\ row_idx' = row_idx + 1
              /\ pc' = "row"
              /\ file_idx' = file_idx
              /\ IF should_ignore(ignore_list, r.Description)
                 THEN /\ ignored_count' = ignored_count + 1
                      /\ log' = Append(log, Entry(r, "ignored"))
                      /\ UNCHANGED <<total_credits, total_debits, seen_in_file,
                                     key_to_files, duplicate_count, all_rows>>
                 ELSE /\ total_credits' = total_credits + r.Credit
                      /\ total_debits' = total_debits + r.Debit
                      /\ ignored_count' = ignored_count
                      /\ IF key \in seen_in_file
                         THEN /\ duplicate_count' = duplicate_count + 1
                              /\ log' = Append(log, Entry(r, "duplicate"))
                              /\ UNCHANGED <<seen_in_file, key_to_files, all_rows>>
                         ELSE /\ seen_in_file' = seen_in_file \cup {key}
                              /\ IF FilesWith(key) # {} /\ file_idx \notin FilesWith(key)
                                 THEN /\ duplicate_count' = duplicate_count + 1
                                      /\ log' = Append(log, Entry(r, "duplicate"))
                                      /\ UNCHANGED <<key_to_files, all_rows>>
                                 ELSE /\ key_to_files' =
                                           (key :> (FilesWith(key) \cup {file_idx})) @@ key_to_files
                                      /\ all_rows' = Append(all_rows, r)
                                      /\ log' = Append(log, Entry(r, "kept"))
                                      /\ duplicate_count' = duplicate_count
     ELSE /\ file_idx' = file_idx + 1
          /\ pc' = "open"
          /\ UNCHANGED <<row_idx, seen_in_file, key_to_files, all_rows, duplicate_count,
                         total_credits, total_debits, ignored_count, log>>
  /\ UNCHANGED <<disk, setup_state, rows, cat_idx, written, run_no, fit_log, prev>>

\* lines 463-487: the sort, then the vendor aliases applied to every kept row
SortNormalize ==
  /\ pc = "sort"
  /\ \E sorted \in {SortBy(all_rows, RowBefore)},
        vendor_aliases \in {LoadVendorAliases(config.aliases)} :
         all_rows' = [i \in 1..Len(sorted) |->
                        [sorted[i] EXCEPT !.Description =
                           normalize_description(vendor_aliases, sorted[i].Description)]]
  /\ pc' = "categorize"
  /\ UNCHANGED <<disk, setup_state, file_idx, rows, row_idx, seen_in_file, key_to_files,
                 duplicate_count, total_credits, total_debits, ignored_count, log,
                 cat_idx, written, run_no, fit_log, prev>>

\* lines 490-492: one pass of the loop that categorizes all_rows
CategorizeRow ==
  /\ pc = "categorize"
  /\ cat_idx < Len(all_rows)
  /\ \E c \in {categorize(classifier, all_rows[cat_idx + 1].Description, env.proba,
                            _ml_threshold(env.threshold))} :
         IF c.error
         THEN pc' = "crashed" /\ UNCHANGED <<all_rows, classifier, cat_idx>>
         ELSE /\ all_rows' = [all_rows EXCEPT ![cat_idx + 1].Category = c.category]
              /\ classifier' = [classifier EXCEPT !.counts = Count(@, c.source)]
              /\ cat_idx' = cat_idx + 1
              /\ pc' = "categorize"
  /\ UNCHANGED <<disk, profile, csv_files, ignore_list, file_idx, rows, row_idx,
                 seen_in_file, key_to_files, duplicate_count, total_credits, total_debits,
                 ignored_count, log, written, run_no, fit_log, prev>>

\* the rows csv.DictWriter writes to {month}_combined.csv
CombinedRows ==
  << <<"Date", "Description", "Debit", "Credit", "Amount", "Account", "Source",
       "Suggested Category">> >>
  \o [i \in 1..Len(all_rows) |->
        <<all_rows[i].Date, all_rows[i].Description, FloatStr(all_rows[i].Debit),
          FloatStr(all_rows[i].Credit), AmountStr(all_rows[i]), all_rows[i].Account,
          all_rows[i].Source, all_rows[i].Category>>]

\* the text csv writes for (r["Credit"] or 0) - (r["Debit"] or 0): the int 0 when
\* both are zero
MergedAmountStr(r) ==
  IF r.Credit = 0 /\ r.Debit = 0 THEN "0" ELSE FloatStr(r.Credit - r.Debit)

\* the rows csv.writer writes to merged.csv
MergedRows ==
  << <<"Date", "Description", "Amount", "Category">> >>
  \o [i \in 1..Len(all_rows) |->
        <<all_rows[i].Date, all_rows[i].Description, MergedAmountStr(all_rows[i]),
          all_rows[i].Category>>]

\* faulty variant: every row read is reported as a transaction
AuditCountsRows ==
  [total_credits |-> total_credits,
   total_debits |-> total_debits,
   duplicate_count |-> duplicate_count,
   files_processed |-> Len(csv_files),
   transaction_count |-> Len(log),
   ignored_count |-> ignored_count,
   categorized_via_mapping |-> classifier.counts[SOURCE_MAPPING],
   categorized_via_regex |-> classifier.counts[SOURCE_REGEX],
   categorized_via_ml |-> classifier.counts[SOURCE_ML],
   uncategorized |-> classifier.counts[SOURCE_UNCATEGORIZED]]

Audit ==
  [total_credits |-> total_credits,
   total_debits |-> total_debits,
   duplicate_count |-> duplicate_count,
   files_processed |-> Len(csv_files),
   transaction_count |-> Len(all_rows),
   ignored_count |-> ignored_count,
   categorized_via_mapping |-> classifier.counts[SOURCE_MAPPING],
   categorized_via_regex |-> classifier.counts[SOURCE_REGEX],
   categorized_via_ml |-> classifier.counts[SOURCE_ML],
   uncategorized |-> classifier.counts[SOURCE_UNCATEGORIZED]]

\* lines 494-503, reached when the loop of line 490 is over
WriteCombined ==
  /\ pc = "categorize"
  /\ cat_idx = Len(all_rows)
  /\ IF CombinedPath \in blocked
     THEN pc' = "crashed" /\ UNCHANGED <<files, written>>
     ELSE /\ files' = (CombinedPath :> CombinedRows) @@ files
          /\ written' = written \cup {"combined"}
          /\ pc' = "write_merged"
  /\ UNCHANGED <<config, dirs, blocked, cache, audit_json, env, setup_state, merge_state,
                 cat_idx, run_no, fit_log, prev>>

\* lines 505-512
WriteMerged ==
  /\ pc = "write_merged"
  /\ IF MergedPath \in blocked
     THEN pc' = "crashed" /\ UNCHANGED <<files, written>>
     ELSE /\ files' = (MergedPath :> MergedRows) @@ files
          /\ written' = written \cup {"merged"}
          /\ pc' = "write_audit"
  /\ UNCHANGED <<config, dirs, blocked, cache, audit_json, env, setup_state, merge_state,
                 cat_idx, run_no, fit_log, prev>>

\* lines 514-528
WriteAudit ==
  /\ pc = "write_audit"
  /\ IF AuditPath \in blocked
     THEN pc' = "crashed" /\ UNCHANGED <<audit_json, written>>
     ELSE /\ audit_json' = [exists |-> TRUE, data |-> Audit]
          /\ written' = written \cup {"audit"}
          /\ pc' = "done"
  /\ UNCHANGED <<config, dirs, files, blocked, cache, env, setup_state, merge_state,
                 cat_idx, run_no, fit_log, prev>>

Ended == pc \in {"done", "exit1", "crashed"}

FileOr(path) == IF path \in DOMAIN files THEN files[path] ELSE <<>>

\* the script is started again for the same month
NextRun ==
  /\ Ended
  /\ run_no < MaxRuns
  /\ run_no' = run_no + 1
  /\ prev' = [pc |-> pc, config |-> config, combined |-> FileOr(CombinedPath),
              merged |-> FileOr(MergedPath), audit |-> audit_json]
  /\ pc' = "start"
  /\ classifier' = NewClassifier([rules |-> <<>>, categories |-> <<>>], "")
  /\ profile' = DefaultProfile
  /\ csv_files' = <<>>
  /\ ignore_list' = <<>>
  /\ file_idx' = 0
  /\ rows' = <<>>
  /\ row_idx' = 0
  /\ seen_in_file' = {}
  /\ key_to_files' = <<>>
  /\ all_rows' = <<>>
  /\ duplicate_count' = 0
  /\ total_credits' = 0
  /\ total_debits' = 0
  /\ ignored_count' = 0
  /\ cat_idx' = 0
  /\ written' = {}
  /\ log' = <<>>
  /\ UNCHANGED <<disk, fit_log>>

\* what the user may do to custom_mapping.json between two runs: give the last
\* entry the category of the first, give the first entry another category, or
\* delete the first entry
EditsOf(items) ==
  { [items EXCEPT ![Len(items)][2] = items[1][2]],
    [items EXCEPT ![1][2] = JStr("Transport & Travel")],
    Tail(items) } \ {items}

\* custom_mapping.json is edited before the script is started again
EditMapping ==
  /\ pc = "start"
  /\ run_no > 1
  /\ config = prev.config
  /\ config.mapping.kind = "dict"
  /\ config.mapping.items # <<>>
  /\ \E m \in EditsOf(config.mapping.items) :
       config' = [config EXCEPT !.mapping = JDict(m, <<>>)]
  /\ UNCHANGED <<dirs, files, blocked, cache, audit_json, env, pc, setup_state, merge_state,
                 cat_idx, written, run_no, fit_log, prev>>

Run ==
  \/ Start
  \/ Fit
  \/ OpenFile
  \/ MergeRow
  \/ SortNormalize
  \/ CategorizeRow
  \/ WriteCombined
  \/ WriteMerged
  \/ WriteAudit

(***************************************************************************)
(* Inputs                                                                  *)
(***************************************************************************)
\* rows in the export files of one month, all files together
MaxRows == 3

\* sequences over S of length at most n
RECURSIVE SeqsUpTo(_, _)
SeqsUpTo(S, n) ==
  IF n = 0 THEN { <<>> }
  ELSE LET shorter == SeqsUpTo(S, n - 1)
       IN  shorter \cup { Append(q, x) : q \in shorter, x \in S }

Month == "DECEMBER 2025"

NoConfig == [rules |-> Absent, mapping |-> Absent, ignore |-> Absent,
             aliases |-> Absent, profiles |-> Absent]

DefaultEnv == [folder_name |-> Month, threshold |-> "0.70", sklearn |-> TRUE,
               outcomes |-> {"ok"}, proba |-> [idx |-> 0, conf |-> 71]]

\* rows of a bank export: date, description, debit, credit, account
RowPool ==
  { <<"2025-12-01", "COFFEE SHOP", "5.00", "", "Chequing">>,
    <<"2025-12-01", "COFFEE SHOP", "5.00", "3.00", "Chequing">>,
    <<"2025-12-01", "COFFEE SHOP", "", " 5 ", "Savings">>,
    <<"2025-12-01", "Monthly Service Fee", "2.50", "", "Chequing">>,
    <<"2025-11-30", "UBER TRIP", "1,012.00", "", "Chequing">> }

IgnoreChoices == { Absent, JList(<<JNull, JStr("service fee")>>) }

AliasChoices ==
  { Absent,
    JDict(<< <<"SHOP", JStr("Shop")>>, <<"COFFEE SHOP ", JStr("Zed Cafe")>>,
             <<"UBER", JStr("SHOP RIDES")>> >>, <<>>) }

RunInit ==
  /\ pc = "start"
  /\ run_no = 1
  /\ fit_log = <<>>
  /\ prev = NoPrev
  /\ audit_json = NoAudit
  /\ LocalsInit

\* one run of the merge over two export files
Init ==
  /\ RunInit
  /\ \E ign \in IgnoreChoices, al \in AliasChoices :
       config = [NoConfig EXCEPT !.ignore = ign, !.aliases = al,
                   !.mapping = JDict(<< <<"COFFEE SHOP", JStr("Restaurants")>> >>, <<>>)]
  /\ dirs = {Month}
  /\ \E f1 \in SeqsUpTo(RowPool, MaxRows), f2 \in SeqsUpTo(RowPool, MaxRows) :
       /\ Len(f1) + Len(f2) <= MaxRows
       /\ files =    (PathOf(Month, "cibc1.csv") :> f1) @@ (PathOf(Month, "cibc2.csv") :> f2)
  /\ blocked = {}
  /\ cache = NoCache
  /\ env = DefaultEnv

Spec == Init /\ [][Run]_vars

(***************************************************************************)
(* Properties of the merge                                                 *)
(***************************************************************************)
Merging == pc \in {"open", "row", "sort"}
Emitted == pc \in {"write_merged", "write_audit", "done"}

Ignored(i) == log[i].verdict = "ignored"

\* the key of row i of the log occurred on an earlier row of the same file that was
\* not ignored, or on a row of an earlier file
EarlierSame(i) ==
  \E j \in 1..(i - 1) :
    /\ log[j].key = log[i].key
    /\ \/ log[j].file < log[i].file
       \/ (log[j].file = log[i].file /\ ~Ignored(j))

DupIndices == { i \in 1..Len(log) : ~Ignored(i) /\ EarlierSame(i) }
KeptIndices == { i \in 1..Len(log) : ~Ignored(i) /\ ~EarlierSame(i) }
Kth(S, k) == CHOOSE i \in S : Cardinality({ j \in S : j < i }) = k - 1

\* the rows the merge keeps, as read, in the order the loop met them
KeptAsRead == [k \in 1..Cardinality(KeptIndices) |-> log[Kth(KeptIndices, k)].row]

\* C2: a row that is not ignored is dropped, and counted once in duplicate_count,
\* exactly when its dedup key occurred on an earlier non-ignored row of the same
\* file or on a row of an earlier file; every other such row is retained.
C2_DedupExactly ==
  Merging =>
    /\ \A i \in 1..Len(log) :
         ~Ignored(i) => (log[i].verdict = "duplicate" <=> EarlierSame(i))
    /\ duplicate_count = Cardinality(DupIndices)
    /\ all_rows = KeptAsRead

\* two files holding the same single row: one record retained, one duplicate
C2_Witness ==
  /\ pc = "sort"
  /\ Len(log) = 2
  /\ log[1].file = 0 /\ log[2].file = 1
  /\ log[1].row.Description = log[2].row.Description
  /\ log[1].key = log[2].key
  /\ duplicate_count = 1
  /\ Len(all_rows) = 1

\* the data rows of a written csv file as (date, description) pairs
WrittenPairs(path) ==
  [i \in 1..(Len(files[path]) - 1) |-> <<files[path][i + 1][1], files[path][i + 1][2]>>]

NonDecreasing(pairs) ==
  \A i, j \in 1..Len(pairs) : i < j => ~PairLess(pairs[j], pairs[i])

\* C4 as claimed: the emitted rows are in non-decreasing order of their own
\* (date, description), whatever the vendor aliases are.
C4_EmittedSorted ==
  pc = "done" =>
    NonDecreasing(WrittenPairs(CombinedPath)) /\ NonDecreasing(WrittenPairs(MergedPath))

\* the emitted record all_rows[i] is the kept row r, its description rewritten by
\* the vendor aliases
EmittedFrom(e, r) ==
  /\ e.Date = r.Date
  /\ e.Description = normalize_description(LoadVendorAliases(config.aliases), r.Description)
  /\ e.Debit = r.Debit /\ e.Credit = r.Credit /\ e.Amount = r.Amount
  /\ e.Account = r.Account /\ e.Source = r.Source

\* (date, description) of a precedes that of b in lexical order
ReadBefore(a, b) == PairLess(<<a.Date, a.Description>>, <<b.Date, b.Description>>)

\* C4 as amended: the emitted rows are the kept rows in non-decreasing order of
\* the (date, description) the Row Reader read, before the alias rewrite; rows
\* equal on both keep the order in which the loop met them.
C4_SortedAsRead ==
  Emitted =>
    /\ Len(all_rows) = Len(KeptAsRead)
    /\ WrittenPairs(CombinedPath) =
         [i \in 1..Len(all_rows) |-> <<all_rows[i].Date, all_rows[i].Description>>]
    /\ \E pi \in Permutations(1..Len(all_rows)) :
         /\ \A i \in 1..Len(all_rows) : EmittedFrom(all_rows[i], KeptAsRead[pi[i]])
         /\ \A i, j \in 1..Len(all_rows) :
              i < j => /\ ~ReadBefore(KeptAsRead[pi[j]], KeptAsRead[pi[i]])
                       /\ (~ReadBefore(KeptAsRead[pi[i]], KeptAsRead[pi[j]]) => pi[i] < pi[j])

\* three rows emitted: two that tie on (date, description) and one of another date
C4_Witness ==
  /\ pc = "done"
  /\ Len(all_rows) = 3
  /\ all_rows[1].Date # all_rows[2].Date
  /\ all_rows[2].Date = all_rows[3].Date
  /\ all_rows[2].Description = "Zed Cafe" /\ all_rows[3].Description = "Zed Cafe"

\* the phrases of ignore_list.json as configured
ConfiguredPhrases ==
  IF config.ignore.kind \in {"list", "dict"}
  THEN { PyStr(config.ignore.items[i]) :
           i \in { n \in 1..Len(config.ignore.items) : Truthy(config.ignore.items[n]) } }
  ELSE {}

HasIgnorePhrase(r) ==
  \E ph \in ConfiguredPhrases : Contains(StrLower(r.Description), ph)

\* C8: a row whose lowercase description contains a configured ignore phrase is
\* ignored: it is counted in ignored_count and not in duplicate_count, adds nothing
\* to the totals, claims and tests no dedup key and is not in the output.
C8_IgnoredRows ==
  /\ \A i \in 1..Len(log) : HasIgnorePhrase(log[i].row) => Ignored(i)
  /\ pc \notin {"start", "fit", "exit1", "crashed"} =>
       /\ ignored_count = Cardinality({ i \in 1..Len(log) : Ignored(i) })
       /\ duplicate_count = Cardinality({ i \in 1..Len(log) : log[i].verdict = "duplicate" })
       /\ total_credits =
            SeqSum([i \in 1..Len(log) |-> IF Ignored(i) THEN 0 ELSE log[i].row.Credit])
       /\ total_debits =
            SeqSum([i \in 1..Len(log) |-> IF Ignored(i) THEN 0 ELSE log[i].row.Debit])
       /\ Len(all_rows) + duplicate_count + ignored_count = Len(log)
       /\ \A i \in 1..Len(log) :
            Ignored(i) => /\ log[i].key \notin DOMAIN key_to_files
                          /\ (Merging => log[i].row \notin Range(all_rows))
                          /\ (pc = "row" /\ log[i].file = file_idx
                                => log[i].key \notin seen_in_file)

\* "service fee" has excluded "Monthly Service Fee", and another row was kept
C8_Witness ==
  /\ pc = "done"
  /\ \E i \in 1..Len(log) :
       /\ Ignored(i)
       /\ HasIgnorePhrase(log[i].row)
       /\ log[i].row.Description = "Monthly Service Fee"
  /\ ignored_count = 1
  /\ duplicate_count = 0
  /\ Len(all_rows) = 1

(***************************************************************************)
(* Inputs of the classifier: one export file of one row                    *)
(***************************************************************************)
LastMonth == "NOVEMBER 2025"

HistLabel(i) == IF i <= 5 THEN "Food & Drink" ELSE IF i <= 8 THEN "Gas & Auto" ELSE "Pets"

\* merged.csv of last month: ten categorized rows, then a text seen before under
\* another category, a text that is a key of the custom mapping, and a row left
\* uncategorized
HistoryRows ==
  << <<"Date", "Description", "Amount", "Category">> >>
  \o [i \in 1..MIN_TRAINING_SAMPLES |->
        <<"2025-11-02", "HIST " \o NatToStr(i), "-1.0", HistLabel(i)>>]
  \o << <<"2025-11-03", "HIST 1", "-1.0", "Pets">>,
        <<"2025-11-03", "COFFEE", "-1.0", "Pets">>,
        <<"2025-11-03", "HIST 11", "-1.0", "Uncategorized">> >>

Descriptions == { "", "COFFEE SHOP 12", "Tim Hortons #4", "ZZZ MART", "INTERNET TRANSFER 12" }

MappingChoices ==
  { Absent,
    JDict(<< <<"COFFEE", JStr("Food & Drink")>> >>, <<>>),
    JDict(<< <<"COFFEE", JStr("Uncategorized")>>, <<"MART", JStr("Pets")>>,
             <<"ZZZ MART", JStr("")>> >>, <<>>) }

RulesChoices ==
  { Absent,
    JDict(<< RuleItem(TRUE, Pat({"coffee"}, TRUE), "Restaurants"),
             RuleItem(FALSE, Pat({"mart"}, TRUE), "Shopping & Groceries"),
             RuleItem(TRUE, Pat({"Tim"}, FALSE), "Uncategorized"),
             RuleItem(TRUE, Pat({"hortons"}, TRUE), "Food & Drink"),
             RuleItem(TRUE, Pat({"internet"}, TRUE), "Utilities & Bills") >>, <<>>),
    JDict(<<>>, <<"Food & Drink", "Pets">>) }

ThresholdChoices == { "0.70", "1.5", "abc", "-1" }

ProbaChoices == { [idx |-> i, conf |-> c] : i \in {0, 2}, c \in {0, 70, 71, 100} }

OneRowFile(description) == << <<"2025-12-01", description, "5.00", "", "Chequing">> >>

InitClassify ==
  /\ RunInit
  /\ \E m \in MappingChoices, r \in RulesChoices :
       config = [NoConfig EXCEPT !.mapping = m, !.rules = r]
  /\ \E d \in { {Month}, {Month, LastMonth} } : dirs = d
  /\ \E description \in Descriptions :
       files = (PathOf(Month, "cibc1.csv") :> OneRowFile(description))
               @@ (PathOf(LastMonth, "merged.csv") :> HistoryRows)
  /\ blocked = {}
  /\ cache = NoCache
  /\ \E t \in ThresholdChoices, p \in ProbaChoices :
       env = [DefaultEnv EXCEPT !.threshold = t, !.proba = p]

SpecClassify == InitClassify /\ [][Run]_vars

(***************************************************************************)
(* Properties of the classifier                                            *)
(***************************************************************************)
\* the run has categorized its one row
Categorized == pc # "crashed" /\ cat_idx = 1 /\ Len(all_rows) = 1

Described == all_rows[1].Description

\* what each tier gives for the row: "" when the mapping has no deciding key,
\* "Uncategorized" when no pattern decides, "" when the model gives no prediction
ByMapping == Tier1(classifier, Described)
ByPattern == _regex_category(classifier, Described).category
ByModel == _predict_ml(classifier, env.proba, _ml_threshold(env.threshold))

\* the provenance categorize returned, read off the counters it incremented
Provenance ==
  { s \in {SOURCE_MAPPING, SOURCE_REGEX, SOURCE_ML, SOURCE_UNCATEGORIZED} :
      classifier.counts[s] = 1 }

CountedOnce ==
  classifier.counts[SOURCE_MAPPING] + classifier.counts[SOURCE_REGEX]
    + classifier.counts[SOURCE_ML] + classifier.counts[SOURCE_UNCATEGORIZED] = 1

\* C1: for a non-empty description categorize returns the category of the first
\* tier, in the order mapping, pattern rules, model, that gives a category other
\* than "Uncategorized", with the provenance of exactly that tier, and
\* ("Uncategorized", uncategorized) when no tier decides; a later tier never
\* replaces what an earlier tier decided.
C1_FirstDecidingTier ==
  (Categorized /\ Described # "") =>
     /\ CountedOnce
     /\ ByMapping # "" =>
          all_rows[1].Category = ByMapping /\ Provenance = {SOURCE_MAPPING}
     /\ (ByMapping = "" /\ ByPattern # "Uncategorized") =>
          all_rows[1].Category = ByPattern /\ Provenance = {SOURCE_REGEX}
     /\ (ByMapping = "" /\ ByPattern = "Uncategorized" /\ ByModel # "") =>
          all_rows[1].Category = ByModel /\ Provenance = {SOURCE_ML}
     /\ (ByMapping = "" /\ ByPattern = "Uncategorized" /\ ByModel = "") =>
          all_rows[1].Category = "Uncategorized" /\ Provenance = {SOURCE_UNCATEGORIZED}

\* the mapping decided a row that the pattern rules and the model would both have
\* given another category
C1_Witness ==
  /\ Categorized
  /\ Described # ""
  /\ ByMapping # ""
  /\ ByPattern \notin {"Uncategorized", ByMapping}
  /\ ByModel \notin {"", ByMapping}
  /\ all_rows[1].Category = ByMapping
  /\ Provenance = {SOURCE_MAPPING}

\* the threshold, in hundredths, that each value of ML_CONFIDENCE_THRESHOLD stands for
ClampedThreshold ==
  ("0.70" :> 70) @@ ("1.5" :> 100) @@ ("abc" :> 70) @@ ("-1" :> 0)

\* the class predict_proba ranks first
TopClass == classifier.model.classes[(env.proba.idx % Len(classifier.model.classes)) + 1]

\* the row got as far as the model
ReachedModel ==
  /\ Categorized
  /\ Described # ""
  /\ ByMapping = ""
  /\ ByPattern = "Uncategorized"
  /\ classifier.ml_trained

\* C6: the model's prediction is accepted only if its top probability is strictly
\* greater than the threshold (the configured value clamped to [0,1], 0.70 by
\* default): a probability equal to the threshold falls through to
\* "Uncategorized", any probability above it is accepted when the class is one of
\* the known categories.
C6_StrictThreshold ==
  ReachedModel =>
     IF env.proba.conf > ClampedThreshold[env.threshold]
        /\ TopClass \in Range(classifier.all_categories)
     THEN all_rows[1].Category = TopClass /\ Provenance = {SOURCE_ML}
     ELSE all_rows[1].Category = "Uncategorized" /\ Provenance = {SOURCE_UNCATEGORIZED}

\* a known class predicted with a probability equal to the threshold is rejected
C6_Witness ==
  /\ ReachedModel
  /\ env.proba.conf = ClampedThreshold[env.threshold]
  /\ env.proba.conf > 0
  /\ TopClass \in Range(classifier.all_categories)
  /\ all_rows[1].Category = "Uncategorized"
  /\ Provenance = {SOURCE_UNCATEGORIZED}

(***************************************************************************)
(* Inputs of tier 1: mapping tables of a few entries, in every order       *)
(***************************************************************************)
MaxMapEntries == 2

MapKeys == { "COFFEE", "SHOP 1", "COFFEE SHOP", " COFFEE" }
MapCategories == { "Food & Drink", "Restaurants", "uncategorized " }

\* the objects custom_mapping.json can hold: no key twice
MappingTables ==
  { t \in SeqsUpTo(MapKeys \X { JStr(c) : c \in MapCategories }, MaxMapEntries) :
      \A i, j \in 1..Len(t) : i # j => t[i][1] # t[j][1] }

InitMapping ==
  /\ RunInit
  /\ \E t \in MappingTables :
       config = [NoConfig EXCEPT !.mapping = JDict(t, <<>>)]
  /\ dirs = {Month}
  /\ \E description \in { "COFFEE SHOP 12", "SHOP 1", "TEA ROOM" } :
       files = (PathOf(Month, "cibc1.csv") :> OneRowFile(description))
  /\ blocked = {}
  /\ cache = NoCache
  /\ env = DefaultEnv

SpecMapping == InitMapping /\ [][Run]_vars

(***************************************************************************)
(* Properties of tier 1                                                    *)
(***************************************************************************)
TableItems == config.mapping.items

\* entries of the table whose category is neither empty nor "Uncategorized"
RetainedAt ==
  { i \in 1..Len(TableItems) :
      StrLower(Strip(TableItems[i][2].s)) \notin {"", "uncategorized"} }

KeyAt(i) == Strip(TableItems[i][1])

\* retained entries whose key is in the description
MatchingAt == { i \in RetainedAt : Contains(Described, KeyAt(i)) }

SameKeyAt(i) == { j \in RetainedAt : KeyAt(j) = KeyAt(i) }

\* where the key of entry i first stands in the table, and the category the last
\* entry with that key gives it
PlaceOf(i) == CHOOSE j \in SameKeyAt(i) : \A k \in SameKeyAt(i) : j <= k
CategoryOf(i) ==
  Strip(TableItems[CHOOSE j \in SameKeyAt(i) : \A k \in SameKeyAt(i) : j >= k][2].s)

LongestAt == { i \in MatchingAt : \A j \in MatchingAt : Len(KeyAt(j)) <= Len(KeyAt(i)) }

\* the longest matching keys that stand first in the table
WinnersAt == { i \in LongestAt : \A j \in LongestAt : PlaceOf(i) <= PlaceOf(j) }

\* tier 1 for the same description when the table is read in the order f
Reordered(f) == [k \in 1..Len(TableItems) |-> TableItems[f[k]]]
Tier1Of(items) ==
  MappingLookup(SortBy(DictKeys(MappingFrom(items, <<>>).dict), LongerFirst),
                MappingFrom(items, <<>>).dict, Described)

SameInEveryOrder ==
  \A f \in Permutations(1..Len(TableItems)) :
     Tier1Of(Reordered(f)) = all_rows[1].Category

\* one longest matching key, and no two retained keys equal once stripped
Unambiguous ==
  /\ \A i, j \in LongestAt : KeyAt(i) = KeyAt(j)
  /\ \A i, j \in RetainedAt : KeyAt(i) = KeyAt(j) => i = j

\* C7 as stated: when retained keys are substrings of the description, the
\* category of the longest matching key is returned, whatever the order of the
\* keys in the mapping table.
C7_LongestKeyAnyOrder ==
  (Categorized /\ MatchingAt # {}) =>
     /\ \E i \in LongestAt : all_rows[1].Category = CategoryOf(i)
     /\ SameInEveryOrder

\* C7: when retained keys are substrings of the description, the category of a
\* longest matching key is returned; among the longest matching keys the one that
\* stands first in the table wins, and of entries whose keys are equal once
\* stripped the last one gives the category.  The result does not depend on the
\* order of the table when the longest matching key is unique and no two retained
\* keys are equal once stripped.
C7_LongestThenFirst ==
  Categorized =>
     IF MatchingAt = {} THEN Provenance # {SOURCE_MAPPING}
     ELSE /\ \A i \in WinnersAt : all_rows[1].Category = CategoryOf(i)
          /\ Provenance = {SOURCE_MAPPING}
          /\ Unambiguous => SameInEveryOrder

\* a shorter matching key stands before the longer one in the table and the
\* longer one's category is returned
C7_Witness ==
  /\ Categorized
  /\ \E i, j \in MatchingAt :
       /\ i < j
       /\ Len(KeyAt(i)) < Len(KeyAt(j))
       /\ CategoryOf(i) # CategoryOf(j)
       /\ all_rows[1].Category = CategoryOf(j)
  /\ Unambiguous
  /\ Provenance = {SOURCE_MAPPING}

(***************************************************************************)
(* Inputs of repeated runs for one month                                   *)
(***************************************************************************)
\* a mapping of n entries: n - 1 vendors of one category and one of another
VendorMapping(n) ==
  [i \in 1..n |-> IF i < n THEN <<"VENDOR " \o NatToStr(i), JStr("Food & Drink")>>
                  ELSE <<"COFFEE", JStr("Restaurants")>>]

\* profiles.json whose default profile takes every csv file of the folder
StarProfile ==
  JDict(<<JStr("*.csv"), JNum("0"), JNum("1"), JNum("2"), JNum("3"), JNum("4")>>, <<>>)

InitRerun ==
  /\ RunInit
  /\ \E n \in {MIN_TRAINING_SAMPLES - 1, MIN_TRAINING_SAMPLES}, p \in {Absent, StarProfile} :
       config = [NoConfig EXCEPT !.mapping = JDict(VendorMapping(n), <<>>), !.profiles = p]
  /\ dirs = {Month}
  /\ \E f \in { OneRowFile("ZZZ MART"),
                OneRowFile("ZZZ MART") \o OneRowFile("COFFEE SHOP 12") } :
       files = (PathOf(Month, "cibc1.csv") :> f)
  /\ blocked = {}
  /\ cache = NoCache
  /\ \E folder_name \in {Month, Month \o "/"}, o \in { {"ok"}, {"ok", "fit_raises"} } :
       env = [DefaultEnv EXCEPT !.folder_name = folder_name, !.outcomes = o]

Rerun == Run \/ NextRun \/ EditMapping

SpecRerun == InitRerun /\ [][Rerun]_vars

(***************************************************************************)
(* Properties of repeated runs                                             *)
(***************************************************************************)
\* the second run is over, both runs completed on the same configuration and
\* sklearn did the same in both
RanTwiceAlike ==
  /\ run_no = 2
  /\ pc = "done"
  /\ prev.pc = "done"
  /\ config = prev.config
  /\ \A k \in 1..Len(fit_log) : fit_log[k].outcome = "ok"

\* C3: two runs in succession for the same month on the same input files and
\* configuration give the same output (records, order, dedup outcome, categories
\* and statistics); what the first run wrote does not change what the second gives.
C3_SecondRunSame ==
  RanTwiceAlike =>
     /\ FileOr(CombinedPath) = prev.combined
     /\ FileOr(MergedPath) = prev.merged
     /\ audit_json = prev.audit

\* the training corpus of the k-th fit(): its examples (no description is in a
\* training list twice, so the set tells the sorted list)
CorpusAt(k) == Range(fit_log[k].training)

\* the fit() call that wrote the cache the k-th call finds
WriterBefore(k) ==
  CHOOSE j \in 1..(k - 1) :
     /\ fit_log[j].after # fit_log[j].before
     /\ \A i \in (j + 1)..(k - 1) : fit_log[i].after = fit_log[i].before

\* the k-th fit() finds a cache, built from the corpus it has now / from another one
FindsOwnCache(k) ==
  fit_log[k].before.kind = "ok" /\ CorpusAt(k) = CorpusAt(WriterBefore(k))
FindsOtherCache(k) ==
  fit_log[k].before.kind = "ok" /\ CorpusAt(k) # CorpusAt(WriterBefore(k))

Reused(k) ==
  /\ ~fit_log[k].trained
  /\ fit_log[k].after = fit_log[k].before
  /\ fit_log[k].ml_trained
  /\ fit_log[k].model = fit_log[k].before.model

Retrained(k) ==
  /\ fit_log[k].trained
  /\ fit_log[k].ml_trained
  /\ fit_log[k].after.kind = "ok"
  /\ Range(fit_log[k].after.hash) = CorpusAt(k)
  /\ Len(fit_log[k].after.hash) = Len(fit_log[k].training)
  /\ fit_log[k].after # fit_log[k].before

LeftUntrained(k) ==
  /\ ~fit_log[k].trained
  /\ ~fit_log[k].ml_trained
  /\ fit_log[k].after = fit_log[k].before

\* the corpus is one fit() trains on
Trainable(k) ==
  /\ Len(fit_log[k].training) >= MIN_TRAINING_SAMPLES
  /\ Cardinality({ fit_log[k].training[i][2] : i \in 1..Len(fit_log[k].training) }) >= 2

DefectiveConfigs ==
  { [NoConfig EXCEPT !.rules = f] :
      f \in { BadJson, JList(<<>>),
              JDict(<<RuleItem(TRUE, BadPat, "Restaurants")>>, <<>>) } }
  \cup { [NoConfig EXCEPT !.mapping = f] :
      f \in { BadJson, JList(<<>>), JDict(<< <<"COFFEE", JNum("5")>> >>, <<>>) } }
  \cup { [NoConfig EXCEPT !.aliases = f] : f \in { BadJson, JList(<<>>) } }
  \cup { [NoConfig EXCEPT !.ignore = f] :
      f \in { BadJson, JDict(<<>>, <<"descriptions", "number">>) } }
  \cup { [NoConfig EXCEPT !.profiles = f] :
      f \in { BadJson, JList(<<>>),
              JDict(<<JStr("cibc*.csv"), JStr("x"), JNum("1"), JNum("2"), JNum("3"),
                      JNum("4")>>, <<>>) } }

Outputs ==
  { PathOf(Month, Month \o "_combined.csv"), PathOf(Month, "merged.csv"),
    PathOf(Month, "audit.json") }

InitFaults ==
  /\ RunInit
  /\ config \in DefectiveConfigs \cup {NoConfig}
  /\ \E d \in { {}, {Month} } :
       /\ dirs = d
       /\ \E f \in { <<>>, OneRowFile("ZZZ MART") \o OneRowFile("COFFEE SHOP 12") } :
            files \in { IF d = {} \/ f = <<>> THEN <<>> ELSE (PathOf(Month, "cibc1.csv") :> f),
                        IF d = {} THEN <<>> ELSE (PathOf(Month, "cibc1.csv") :> f) }
  /\ blocked \in SUBSET Outputs
  /\ cache = NoCache
  /\ env = DefaultEnv

SpecFaults == InitFaults /\ [][Run]_vars

(***************************************************************************)
(* Properties of a run that meets defects                                  *)
(***************************************************************************)
AllOutputs == {"combined", "merged", "audit"}

\* the month folder is missing or holds no export file
NoInput == MonthName \notin dirs \/ MonthFiles = {}

\* C9: a run either completes having written the combined table, merged.csv and
\* audit.json, or fails before it writes any of them; when the month folder is
\* missing or holds no export file it exits with a failure, writes no output and
\* no model cache.
C9_AllOrNothing ==
  Ended =>
     /\ IF pc = "done" THEN written = AllOutputs ELSE written = {}
     /\ NoInput => (pc # "done" /\ written = {} /\ cache = NoCache)

\* C10: a configuration file that is malformed (not JSON, or JSON of the wrong
\* shape or value type) never aborts the run: the run goes on with the built-in
\* default for that table and completes.
C10_DefectsRecovered ==
  (config \in DefectiveConfigs /\ blocked = {}) => pc # "crashed"

(***************************************************************************)
(* Inputs of fit(): corpora around the training minimum, cache files of    *)
(* every kind, a fit that succeeds or raises                               *)
(***************************************************************************)
\* a mapping of n entries that all have one category
OneLabelMapping(n) ==
  [i \in 1..n |-> <<"VENDOR " \o NatToStr(i), JStr("Food & Drink")>>]

\* the cache a successful fit() writes for the mapping whose entries are items
CacheOf(items) ==
  fit(NewClassifier(_load_category_config(Absent), Month), JDict(items, <<>>), <<>>,
      NoCache, TRUE, "ok").cache

\* cache files pickle.load fails on or whose content is not what fit() wrote
UnusableCaches ==
  { [CorruptCache EXCEPT !.kind = k] : k \in {"corrupt", "unreadable", "notdict", "nofields"} }

InitCache ==
  /\ RunInit
  /\ \E m \in { VendorMapping(MIN_TRAINING_SAMPLES - 1), VendorMapping(MIN_TRAINING_SAMPLES),
                OneLabelMapping(MIN_TRAINING_SAMPLES) },
        r \in { Absent, JDict(<<>>, <<"Food & Drink", "Uncategorized">>) } :
       config = [NoConfig EXCEPT !.mapping = JDict(m, <<>>), !.rules = r]
  /\ dirs = {Month}
  /\ files = (PathOf(Month, "cibc1.csv") :>
                (OneRowFile("ZZZ MART") \o OneRowFile("COFFEE SHOP 12")))
  /\ blocked = {}
  /\ cache \in UnusableCaches
               \cup { NoCache, CacheOf(VendorMapping(MIN_TRAINING_SAMPLES - 1)),
                      CacheOf(VendorMapping(MIN_TRAINING_SAMPLES)) }
  /\ \E i \in {0, 1}, c \in {70, 71}, o \in {"ok", "fit_raises", "dump_raises"},
        sk \in BOOLEAN :
       env = [DefaultEnv EXCEPT !.proba = [idx |-> i, conf |-> c], !.outcomes = {o},
                                !.sklearn = sk]

SpecCache == InitCache /\ [][Run]_vars

(***************************************************************************)
(* Properties of fit()                                                     *)
(***************************************************************************)
\* the k-th fit() finds a cache file it cannot use: one that does not load, is not
\* what fit() writes, or carries the fingerprint of another corpus
FindsUnusableCache(k) ==
  /\ fit_log[k].before.kind # "none"
  /\ ~(/\ fit_log[k].before.kind = "ok"
       /\ Range(fit_log[k].before.hash) = CorpusAt(k)
       /\ Len(fit_log[k].before.hash) = Len(fit_log[k].training))

\* what the k-th fit() gives when there is no cache file
WithoutCache(k) ==
  fit(classifier, config.mapping,
      _load_historical_training_data(dirs, files, classifier.current_month_folder),
      NoCache, env.sklearn, fit_log[k].outcome)

FitRaised(k) ==
  /\ fit_log[k].outcome = "fit_raises"
  /\ Trainable(k)
  /\ env.sklearn
  /\ fit_log[k].before.kind = "none" \/ FindsUnusableCache(k)

\* what tiers 1 and 2 and the "Uncategorized" fallback give a description
WithoutModel(description) ==
  IF description = "" THEN "Uncategorized"
  ELSE IF Tier1(classifier, description) # "" THEN Tier1(classifier, description)
  ELSE _regex_category(classifier, description).category

\* C12: when fitting the model fails, fit() returns normally with the statistical
\* tier off for the rest of the run: every categorize call returns what tiers 1-2
\* and the "Uncategorized" fallback give, never with provenance ml, and the run
\* completes and writes its outputs.
C12_FailedFitDisablesModel ==
  (Len(fit_log) = 1 /\ FitRaised(1)) =>
     /\ pc \notin {"crashed", "exit1"}
     /\ ~classifier.ml_trained
     /\ classifier.counts[SOURCE_ML] = 0
     /\ \A i \in 1..cat_idx : all_rows[i].Category = WithoutModel(all_rows[i].Description)
     /\ pc = "done" => written = AllOutputs

\* the fit raised, the run completed, and a row the model would have been confident
\* about was left to the fallback
C12_Witness ==
  /\ pc = "done"
  /\ Len(fit_log) = 1
  /\ FitRaised(1)
  /\ written = AllOutputs
  /\ env.proba.conf > _ml_threshold(env.threshold)
  /\ \E i \in 1..Len(all_rows) :
       all_rows[i].Description = "ZZZ MART" /\ all_rows[i].Category = "Uncategorized"
  /\ classifier.counts[SOURCE_UNCATEGORIZED] = 1

(***************************************************************************)
(* Properties of tier 2                                                    *)
(***************************************************************************)
\* the configured rules whose pattern matches the row's description
MatchingRules ==
  { i \in 1..Len(classifier.regex_rules) :
      re_search(classifier.regex_rules[i].pattern, Described) }

FirstMatchingRule == CHOOSE i \in MatchingRules : \A j \in MatchingRules : i <= j

FallbackMatches == re_search(TRANSFER_FALLBACK.pattern, Described)

\* the category tier 2 is to give the row
Tier2Expected ==
  IF MatchingRules # {} THEN classifier.regex_rules[FirstMatchingRule].category
  ELSE IF FallbackMatches THEN "Transfers & Payments"
  ELSE "Uncategorized"

\* C13: tier 2 tries the configured rules in their order and gives the category
\* of the first rule whose pattern matches; the transfer fallback is consulted
\* only when no configured rule matches, so it never pre-empts a matching rule.
C13_FirstRuleThenFallback ==
  (Categorized /\ Described # "" /\ ByMapping = "") =>
     IF Tier2Expected # "Uncategorized"
     THEN all_rows[1].Category = Tier2Expected /\ Provenance = {SOURCE_REGEX}
     ELSE Provenance \cap {SOURCE_MAPPING, SOURCE_REGEX} = {}

\* a configured rule and the transfer fallback both match the row and the rule's
\* category, which is not the fallback's, was given
C13_Witness ==
  /\ Categorized
  /\ Described # ""
  /\ ByMapping = ""
  /\ MatchingRules # {}
  /\ FallbackMatches
  /\ Tier2Expected \notin {"Uncategorized", "Transfers & Payments"}
  /\ all_rows[1].Category = Tier2Expected
  /\ Provenance = {SOURCE_REGEX}

\* C14: tier-2 matching is case-insensitive for every rule, those of the user's
\* category_rules.json included: a rule that matches a description matches the
\* description written in another letter case too, and tier 2 gives both the same
\* category.
C14_RulesIgnoreCase ==
  (Categorized /\ Described # "") =>
     /\ \A i \in 1..Len(classifier.regex_rules) :
          re_search(classifier.regex_rules[i].pattern, Described)
            <=> re_search(classifier.regex_rules[i].pattern, StrLower(Described))
     /\ _regex_category(classifier, StrLower(Described)).category = ByPattern

\* the model's label for the run's descriptions is not one of the configured categories
LabelOutsideCategories ==
  /\ classifier.ml_trained
  /\ TopClass \notin Range(classifier.all_categories)

\* C15: a label the model predicts that is not in the configured category set is
\* rejected as "no answer" whatever its confidence, also when the model was loaded
\* from a cache written under another category configuration: the row gets what
\* tiers 1-2 and the "Uncategorized" fallback give and no row has provenance ml
\* with a category outside the set.
C15_LabelOutsideSetRejected ==
  pc # "crashed" =>
     /\ LabelOutsideCategories =>
          /\ classifier.counts[SOURCE_ML] = 0
          /\ \A i \in 1..cat_idx :
               all_rows[i].Category = WithoutModel(all_rows[i].Description)
     /\ \A i \in 1..cat_idx :
          all_rows[i].Category # WithoutModel(all_rows[i].Description)
            => all_rows[i].Category \in Range(classifier.all_categories)

\* the model came from the cache of a run under the built-in categories, the
\* configured set no longer has "Restaurants", and the model's confident
\* "Restaurants" for "ZZZ MART" was turned down
C15_Witness ==
  /\ pc = "done"
  /\ Len(fit_log) = 1
  /\ Reused(1)
  /\ LabelOutsideCategories
  /\ TopClass = "Restaurants"
  /\ env.proba.conf > _ml_threshold(env.threshold)
  /\ \E i \in 1..Len(all_rows) :
        all_rows[i].Description = "ZZZ MART" /\ all_rows[i].Category = "Uncategorized"
  /\ classifier.counts[SOURCE_ML] = 0

\* C16: with fewer than 10 training examples or fewer than two distinct labels,
\* fit() fits no model and neither opens nor writes the cache file, and for the
\* whole run no categorize call returns provenance ml: every row gets what tiers
\* 1-2 and the "Uncategorized" fallback give.
C16_SmallCorpusSkipsModel ==
  \A k \in 1..Len(fit_log) :
     (~Trainable(k) /\ run_no = k /\ pc # "crashed") =>
        /\ LeftUntrained(k)
        /\ ~fit_log[k].read
        /\ cache = fit_log[k].before
        /\ ~classifier.ml_trained
        /\ classifier.counts[SOURCE_ML] = 0
        /\ \A i \in 1..cat_idx :
             all_rows[i].Category = WithoutModel(all_rows[i].Description)

\* ten examples of one label, scikit-learn installed and a usable cache file in
\* place: the run completed without a model and the cache file is as it was
C16_Witness ==
  /\ pc = "done"
  /\ Len(fit_log) = 1
  /\ Len(fit_log[1].training) = MIN_TRAINING_SAMPLES
  /\ ~Trainable(1)
  /\ env.sklearn
  /\ fit_log[1].before.kind = "ok"
  /\ cache = fit_log[1].before
  /\ env.proba.conf > _ml_threshold(env.threshold)
  /\ \E i \in 1..Len(all_rows) :
        all_rows[i].Description = "ZZZ MART" /\ all_rows[i].Category = "Uncategorized"

(***************************************************************************)
(* Properties of the vendor aliases                                        *)
(***************************************************************************)
Normalized == pc \in {"categorize", "write_merged", "write_audit", "done"}

\* the alias table main() loaded: keys and canonical names stripped
AliasTable == LoadVendorAliases(config.aliases)

\* the keys of table that are substrings of d, and the longest of those keys
AliasKeysOf(table, d) == { k \in Range(DictKeys(table)) : Contains(d, k) }
Longest(keys) == { k \in keys : \A other \in keys : Len(other) <= Len(k) }
AliasKeysIn(d) == AliasKeysOf(AliasTable, d)

\* the kept rows in the order of the sort, as the Row Reader read them
SortedAsRead == SortBy(KeptAsRead, RowBefore)

\* C17: the alias rewrite replaces the whole description by the canonical name of
\* the longest alias key (keys as loaded, surrounding whitespace stripped) that is
\* a substring of it, rewrites a record at most once (a canonical name that
\* itself contains an alias key stays as it is), and leaves a description that
\* contains no alias key unchanged.
C17_LongestAliasOnce ==
  Normalized =>
    \E as_read \in {SortedAsRead}, table \in {AliasTable} :
       /\ Len(all_rows) = Len(as_read)
       /\ \A i \in 1..Len(all_rows) :
            \E keys \in {AliasKeysOf(table, as_read[i].Description)} :
               IF keys = {} THEN all_rows[i].Description = as_read[i].Description
               ELSE \E k \in Longest(keys) :
                       all_rows[i].Description = DictGet(table, k)

\* "UBER TRIP" became "SHOP RIDES", which contains the key "SHOP" and was not
\* rewritten again; "COFFEE SHOP" contains the keys "SHOP" and "COFFEE SHOP" and
\* took the name of the longer one; "Monthly Service Fee" has no key and is as read
C17_Witness ==
  /\ pc = "done"
  /\ Len(all_rows) = 3
  /\ SortedAsRead[1].Description = "UBER TRIP" /\ all_rows[1].Description = "SHOP RIDES"
  /\ "SHOP" \in AliasKeysIn(all_rows[1].Description)
  /\ SortedAsRead[2].Description = "COFFEE SHOP" /\ all_rows[2].Description = "Zed Cafe"
  /\ AliasKeysIn("COFFEE SHOP") = {"SHOP", "COFFEE SHOP"}
  /\ SortedAsRead[3].Description = "Monthly Service Fee"
  /\ all_rows[3].Description = "Monthly Service Fee"

(***************************************************************************)
(* Properties of the training data                                         *)
(***************************************************************************)
\* the categorized (text, label) rows of last month's merged.csv that fit() reads
HistoryPairs ==
  IF LastMonth \in dirs
  THEN { <<HistoryRows[i][2], HistoryRows[i][4]>> :
           i \in { n \in 2..Len(HistoryRows) : HistoryRows[n][4] # "Uncategorized" } }
  ELSE {}

\* C18: the training data has at most one example per text; a text that is a key
\* of the custom mapping carries the mapping's category, also when last month's
\* merged.csv has it under another one; no example has the label "Uncategorized".
\* Every mapping entry and every categorized historical text is in it.
C18_OneExamplePerText ==
  \A k \in 1..Len(fit_log) :
     (run_no = k /\ pc # "crashed") =>
        \E t \in {fit_log[k].training} :
           /\ \A i, j \in 1..Len(t) : t[i][1] = t[j][1] => i = j
           /\ \A i \in 1..Len(t) : t[i][2] # "Uncategorized"
           /\ \A m \in 1..Len(classifier.custom_mapping) :
                /\ classifier.custom_mapping[m] \in Range(t)
                /\ \A i \in 1..Len(t) :
                     t[i][1] = classifier.custom_mapping[m][1]
                       => t[i][2] = classifier.custom_mapping[m][2]
           /\ \A h \in HistoryPairs : \E i \in 1..Len(t) : t[i][1] = h[1]
           /\ Range(t) \subseteq Range(classifier.custom_mapping) \cup HistoryPairs

\* "COFFEE" is a mapping key with "Food & Drink" and a historical text with "Pets",
\* "HIST 1" is in the history twice, "HIST 11" is there uncategorized: eleven
\* examples, "COFFEE" with the mapping's category
C18_Witness ==
  /\ Len(fit_log) = 1
  /\ pc = "done"
  /\ <<"COFFEE", "Pets">> \in HistoryPairs
  /\ <<"HIST 1", "Pets">> \in HistoryPairs
  /\ <<"COFFEE", "Food & Drink">> \in Range(classifier.custom_mapping)
  /\ <<"COFFEE", "Food & Drink">> \in Range(fit_log[1].training)
  /\ <<"HIST 1", "Food & Drink">> \in Range(fit_log[1].training)
  /\ Len(fit_log[1].training) = MIN_TRAINING_SAMPLES + 1

(***************************************************************************)
(* Properties of the historical training data                              *)
(***************************************************************************)
\* the folders other than the current period whose name is a date and that have a
\* merged.csv, and the three of the most recent dates among them
OtherPeriods ==
  { d \in dirs : /\ d # MonthName
                 /\ ParsePeriod(d).ok
                 /\ PathOf(d, "merged.csv") \in DOMAIN files }
RecentPeriods ==
  { d \in OtherPeriods :
      Cardinality({ e \in OtherPeriods : ParsePeriod(e).dt > ParsePeriod(d).dt }) < 3 }

\* C19: the historical examples of the training data come only from merged.csv of
\* at most three folders, those of the most recent dates among the folders other
\* than the current period; the merged.csv of the current period itself is never
\* read as training data.
C19_HistoryFromOtherPeriods ==
  \A k \in 1..Len(fit_log) :
     (run_no = k /\ pc \notin {"start", "fit", "crashed", "exit1"}) =>
        /\ Cardinality(RecentPeriods) <= 3
        /\ Range(fit_log[k].training) \ Range(classifier.custom_mapping)
             \subseteq UNION { Range(PairsOfFile(files[PathOf(d, "merged.csv")])) :
                                 d \in RecentPeriods }

(***************************************************************************)
(* Properties of the files read and written                                *)
(***************************************************************************)
\* the names, in the month folder, of the files a run writes
WrittenNames == {CombinedName, "merged.csv", "audit.json"}

\* C20: a run never modifies a source export file: whatever the folder name and
\* the file pattern of the bank profile, no file the run reads as a transaction
\* source is one of the files it writes, in the first run and in a later run of
\* the same period.
C20_SourcesNeverWritten ==
  Range(csv_files) \cap WrittenNames = {}

(***************************************************************************)
(* Properties of a run without source files                                *)
(***************************************************************************)
\* the month folder is there and the bank profile loads
FolderAndProfile ==
  /\ pc # "start"
  /\ MonthName \in dirs
  /\ ~_load_bank_profile(config.profiles).crash

\* C21 as stated: a period whose list of source files is empty is merged without
\* error into an empty record list with zero totals and zero duplicates.
C21_EmptyListMerged ==
  (Ended /\ FolderAndProfile /\ csv_files = <<>>) =>
     /\ pc = "done"
     /\ all_rows = <<>>
     /\ total_credits = 0 /\ total_debits = 0 /\ duplicate_count = 0

\* C21: a period folder in which the file pattern finds no file ends the run with
\* exit status 1 before the merge: nothing is merged and no output and no cache is
\* written.  A period whose files are found is not ended that way, and when the
\* files hold no row the run completes with an empty record list, zero totals and
\* zero duplicates.
C21_EmptyListIsFatal ==
  FolderAndProfile =>
     IF MonthFiles = {}
     THEN /\ pc = "exit1"
          /\ csv_files = <<>> /\ all_rows = <<>> /\ log = <<>>
          /\ written = {} /\ audit_json = NoAudit /\ cache = NoCache
     ELSE /\ pc # "exit1"
          /\ (pc = "done" /\ FileOr(PathOf(MonthName, "cibc1.csv")) = <<>>) =>
               /\ audit_json.data.transaction_count = 0
               /\ audit_json.data.total_credits = 0
               /\ audit_json.data.total_debits = 0
               /\ audit_json.data.duplicate_count = 0
               /\ Len(files[MergedPath]) = 1

\* the folder of the period exists and holds no file: the run has exited with
\* status 1 and written nothing
C21_Witness ==
  /\ FolderAndProfile
  /\ MonthFiles = {}
  /\ pc = "exit1"
  /\ written = {}

(***************************************************************************)
(* Properties of the amounts                                               *)
(***************************************************************************)
\* credit minus debit of a record, in cents
CreditMinusDebit(r) == r.Credit - r.Debit

\* C22: one signed amount, credit minus debit, is used for every record
\* everywhere: it is the amount of the dedup key, the Amount column of the
\* combined table and the amount of merged.csv, so that two rows of equal date
\* and description have one dedup key exactly when their credit minus debit is
\* the same.
C22_OneSignConvention ==
  /\ \A i \in 1..Len(log) : log[i].key[3] = CreditMinusDebit(log[i].row)
  /\ \A i, j \in 1..Len(log) :
       (log[i].row.Date = log[j].row.Date
          /\ log[i].row.Description = log[j].row.Description) =>
         (log[i].key = log[j].key
            <=> CreditMinusDebit(log[i].row) = CreditMinusDebit(log[j].row))
  /\ pc = "done" =>
       \A i \in 1..Len(all_rows) :
          /\ all_rows[i].Amount = CreditMinusDebit(all_rows[i])
          /\ files[CombinedPath][i + 1][5] = files[MergedPath][i + 1][3]

(***************************************************************************)
(* Properties of the merge loop                                            *)
(***************************************************************************)
\* the dedup key of a record as the Row Reader read it
KeyAsRead(r) == <<r.Date, r.Description, r.Amount>>

KeptAt == { n \in 1..Len(log) : log[n].verdict = "kept" }

\* C23: at every point of the merge loop and at its end the retained records
\* have pairwise distinct dedup keys (date, description, amount as read), the
\* keys of key_to_files are the keys of the retained records, and each is claimed
\* by exactly one file index, that of the file the retained record came from.
C23_DistinctKeysOneOwner ==
  /\ Merging =>
       /\ \A i, j \in 1..Len(all_rows) :
            KeyAsRead(all_rows[i]) = KeyAsRead(all_rows[j]) => i = j
       /\ DOMAIN key_to_files = { KeyAsRead(all_rows[i]) : i \in 1..Len(all_rows) }
       /\ Len(all_rows) = Cardinality(KeptAt)
  /\ \A n \in KeptAt :
       /\ log[n].key = KeyAsRead(log[n].row)
       /\ log[n].key \in DOMAIN key_to_files
       /\ key_to_files[log[n].key] = {log[n].file}
  /\ \A m, n \in KeptAt : log[m].key = log[n].key => m = n

\* the second file repeated a row of the first and brought one of its own: two
\* records retained, one key claimed by each file, one duplicate
C23_Witness ==
  /\ pc = "sort"
  /\ Len(all_rows) = 2
  /\ duplicate_count = 1
  /\ key_to_files[KeyAsRead(all_rows[1])] = {0}
  /\ key_to_files[KeyAsRead(all_rows[2])] = {1}
  /\ \E n \in 1..Len(log) :
       log[n].verdict = "duplicate" /\ log[n].file = 1 /\ log[n].key = KeyAsRead(all_rows[1])

\* the rows the Row Reader returns for the k-th source file
RowsOfFile(k) ==
  read_bank_csv(files[PathOf(MonthName, csv_files[k])], csv_files[k], profile)

RECURSIVE RowsOfFiles(_)
\* the number of rows the Row Reader returns for the first k source files
RowsOfFiles(k) == IF k = 0 THEN 0 ELSE RowsOfFiles(k - 1) + Len(RowsOfFile(k))

\* the rows the merge loop has taken from the Row Reader so far
RowsReadSoFar ==
  IF pc = "row" THEN RowsOfFiles(file_idx) + row_idx
  ELSE IF pc = "open" THEN RowsOfFiles(file_idx)
  ELSE RowsOfFiles(Len(csv_files))

\* C24: every row the Row Reader returns is accounted for exactly once: at every
\* point of the merge the rows read so far are the retained rows plus
\* duplicate_count plus ignored_count, and in audit.json transaction_count +
\* duplicate_count + ignored_count is the number of rows of all source files.
C24_RowsAccounted ==
  pc \notin {"start", "fit", "crashed", "exit1"} =>
     \E read \in {RowsReadSoFar} :
        /\ read = Len(all_rows) + duplicate_count + ignored_count
        /\ read = Len(log)
        /\ pc = "done" =>
             audit_json.data.transaction_count + audit_json.data.duplicate_count
               + audit_json.data.ignored_count = read

\* three rows read: one retained, one dropped as a duplicate, one ignored
C24_Witness ==
  /\ pc = "done"
  /\ RowsOfFiles(Len(csv_files)) = 3
  /\ audit_json.data.transaction_count = 1
  /\ audit_json.data.duplicate_count = 1
  /\ audit_json.data.ignored_count = 1

\* C25: the total credits and total debits a merge reports are the sums of the
\* credit and debit fields over the records of the deduplicated output list; a
\* row dropped as a duplicate or ignored adds to neither.
C25_TotalsOfOutput ==
  pc \in {"sort", "categorize", "write_merged", "write_audit", "done"} =>
     /\ total_credits = SeqSum([i \in 1..Len(all_rows) |-> all_rows[i].Credit])
     /\ total_debits = SeqSum([i \in 1..Len(all_rows) |-> all_rows[i].Debit])
     /\ pc = "done" =>
          /\ audit_json.data.total_credits = total_credits
          /\ audit_json.data.total_debits = total_debits

(***************************************************************************)
(* Properties of the counters                                              *)
(***************************************************************************)
Sources == {SOURCE_MAPPING, SOURCE_REGEX, SOURCE_ML, SOURCE_UNCATEGORIZED}

\* the provenance categorize returns for a description, tier by tier
ProvenanceOf(d) ==
  IF d = "" \/ Strip(d) = "" THEN SOURCE_UNCATEGORIZED
  ELSE IF Tier1(classifier, d) # "" THEN SOURCE_MAPPING
  ELSE IF _regex_category(classifier, d).category # "Uncategorized" THEN SOURCE_REGEX
  ELSE IF _predict_ml(classifier, env.proba, _ml_threshold(env.threshold)) # ""
       THEN SOURCE_ML
  ELSE SOURCE_UNCATEGORIZED

\* a step in which categorize was called and returned
CategorizeReturned == cat_idx' = cat_idx + 1

\* C26: each call of categorize, one with an empty description included, adds one
\* to exactly one of the four counters, the one of the provenance it returns, and
\* leaves the other three as they were; so in audit.json the four counts add up to
\* transaction_count.
C26_OneCounterPerCall ==
  /\ [][CategorizeReturned =>
          \E s \in {ProvenanceOf(all_rows[cat_idx + 1].Description)} :
             /\ classifier'.counts[s] = classifier.counts[s] + 1
             /\ \A o \in Sources \ {s} : classifier'.counts[o] = classifier.counts[o]]_vars
  /\ [](pc = "done" =>
          audit_json.data.categorized_via_mapping + audit_json.data.categorized_via_regex
            + audit_json.data.categorized_via_ml + audit_json.data.uncategorized
          = audit_json.data.transaction_count)

\* the row with an empty description was counted as uncategorized, once, and the
\* four counts of audit.json add up to the one transaction
C26_Witness ==
  /\ pc = "done"
  /\ Len(all_rows) = 1
  /\ all_rows[1].Description = ""
  /\ audit_json.data.uncategorized = 1
  /\ audit_json.data.categorized_via_mapping = 0
  /\ audit_json.data.categorized_via_regex = 0
  /\ audit_json.data.categorized_via_ml = 0
  /\ audit_json.data.transaction_count = 1

(***************************************************************************)
(* Properties of the loaded mapping table                                  *)
(***************************************************************************)
\* the entries of custom_mapping.json, and those of them whose category is empty
\* or "Uncategorized"
MappingItems == IF config.mapping.kind = "dict" THEN config.mapping.items ELSE <<>>
Unusable(item) == Strip(item[2].s) \in {"", "Uncategorized"}
UsableItems == SelectSeq(MappingItems, LAMBDA item : ~Unusable(item))

\* the table, and the training data, of a custom_mapping.json without those entries
TableWithout == _load_custom_mapping(JDict(UsableItems, <<>>))
TrainingWithout ==
  _build_training_data(TableWithout.custom_mapping,
                       _load_historical_training_data(dirs, files,
                                                      classifier.current_month_folder))

\* C27: a mapping entry whose category is empty or "Uncategorized" is not in the
\* loaded table.  The table, its key order and the training data are those of the
\* file without such entries; tier 1 decides exactly when a key of another entry
\* is in the description, so a description that holds only such a key goes on to
\* tiers 2 and 3 and a shorter valid key that matches still decides; no training
\* example stems from such an entry.
C27_UnusableEntriesAbsent ==
  (Len(fit_log) = 1 /\ pc # "crashed") =>
     /\ classifier.custom_mapping = TableWithout.custom_mapping
     /\ classifier.mapping_keys_sorted = TableWithout.mapping_keys_sorted
     /\ \A i \in 1..Len(MappingItems) :
          Unusable(MappingItems[i]) =>
             /\ Strip(MappingItems[i][1]) \notin Range(DictKeys(classifier.custom_mapping))
             /\ \A e \in Range(fit_log[1].training) :
                  e[1] = Strip(MappingItems[i][1]) => e \in HistoryPairs
     /\ fit_log[1].training = TrainingWithout
     /\ \A e \in Range(fit_log[1].training) : e[2] \notin {"", "Uncategorized"}
     /\ (Categorized /\ Described # "") =>
          /\ Provenance = {SOURCE_MAPPING}
               <=> \E i \in 1..Len(UsableItems) : Contains(Described, Strip(UsableItems[i][1]))
          /\ Provenance # {SOURCE_MAPPING} =>
               all_rows[1].Category \in {ByPattern, ByModel, "Uncategorized"}

\* custom_mapping.json has "ZZZ MART" with an empty category, "COFFEE" with
\* "Uncategorized" and "MART" with "Pets": the table holds "MART" alone, "ZZZ MART"
\* was decided by the shorter key, and "COFFEE" is in the training data only as the
\* row of last month's merged.csv
C27_Witness ==
  /\ Categorized
  /\ Len(MappingItems) = 3
  /\ classifier.custom_mapping = << <<"MART", "Pets">> >>
  /\ Described = "ZZZ MART"
  /\ all_rows[1].Category = "Pets"
  /\ Provenance = {SOURCE_MAPPING}
  /\ <<"COFFEE", "Pets">> \in Range(fit_log[1].training)

(***************************************************************************)
(* Properties of the records after the Row Reader                          *)
(***************************************************************************)
\* record e is record r as read but for its description and its category
SameButDescription(e, r) ==
  e = [r EXCEPT !.Description = e.Description, !.Category = e.Category]

\* C28 as stated: after the Row Reader has made a record no later stage changes
\* its description or its amount; only the category is added.
C28_DescriptionAmountFrozen ==
  /\ Merging => all_rows = KeptAsRead
  /\ Normalized =>
       \E as_read \in {SortedAsRead} :
          /\ Len(all_rows) = Len(as_read)
          /\ \A i \in 1..Len(all_rows) :
               /\ all_rows[i].Description = as_read[i].Description
               /\ all_rows[i].Amount = as_read[i].Amount

\* C28: after the Row Reader has made a record, the merge, the sort, the
\* classification and the writers leave its date, debit, credit, amount, account
\* and source as read; the description is changed by the vendor alias
\* normalization alone, to the canonical name of an alias key it contains, and is
\* as read when it contains none; the only field added is the category, set when
\* the record is categorized.  The combined table is written from those fields.
C28_OnlyAliasRewrites ==
  /\ Merging => all_rows = KeptAsRead
  /\ Normalized =>
       \E as_read \in {SortedAsRead}, table \in {AliasTable} :
          /\ Len(all_rows) = Len(as_read)
          /\ \A i \in 1..Len(all_rows) :
               /\ SameButDescription(all_rows[i], as_read[i])
               /\ \E keys \in {AliasKeysOf(table, as_read[i].Description)} :
                    IF keys = {} THEN all_rows[i].Description = as_read[i].Description
                    ELSE \E k \in keys : all_rows[i].Description = DictGet(table, k)
               /\ i > cat_idx => all_rows[i].Category = ""
          /\ pc = "done" =>
               \A i \in 1..Len(all_rows) :
                  /\ files[CombinedPath][i + 1][2] = all_rows[i].Description
                  /\ files[CombinedPath][i + 1][3] = FloatStr(as_read[i].Debit)
                  /\ files[CombinedPath][i + 1][4] = FloatStr(as_read[i].Credit)
                  /\ files[MergedPath][i + 1][2] = all_rows[i].Description

\* "COFFEE SHOP" was read with a debit of 5.00 and written as "Zed Cafe" with the
\* same debit; "Monthly Service Fee" holds no alias key and was written as read
C28_Witness ==
  /\ pc = "done"
  /\ Len(all_rows) = 2
  /\ SortedAsRead[1].Description = "COFFEE SHOP"
  /\ all_rows[1].Description = "Zed Cafe"
  /\ all_rows[1].Debit = 500 /\ SortedAsRead[1].Debit = 500
  /\ all_rows[1].Category # ""
  /\ SortedAsRead[2].Description = "Monthly Service Fee"
  /\ all_rows[2].Description = "Monthly Service Fee"

====
